---------------------------- MODULE Spec2Model ----------------------------
(***************************************************************************)
(* Routing and turn sequencing of the multi-agent team chat.               *)
(*                                                                         *)
(*   intent_router.py   IntentRouter.route_user_query / route_agent_response*)
(*   agents.py          MultiAgentSystem._group_chat_dynamic_routing,      *)
(*                      ConferenceOrchestrator.coordinate_conference,      *)
(*                      MultiAgentSystem.think_tank_mode                   *)
(*   server.py          websocket_endpoint (message loop)                  *)
(*                                                                         *)
(* Texts are abstract: an agent reply is the sequence of chunks the        *)
(* completion stream yields ("text" chunks, and "[Error" for the chunk     *)
(* OpenAIClient.generate yields when the completion call fails); what the  *)
(* LLM classifier answers is an input chosen at each call.                 *)
(***************************************************************************)
EXTENDS Integers, Sequences, FiniteSets, TLC

(***************************************************************************)
(* Bounds of the model.                                                    *)
(***************************************************************************)
\* longest agent list the classifier answers, apart from the padded lists
MaxOut == 2
\* length of the run of one repeated id that pads a long tier-1 list
PadLen == 9
\* messages one WebSocket connection receives
MaxMessages == 3

(***************************************************************************)
(* The roster (agents.py AGENTS) and the ids a classifier may name.        *)
(***************************************************************************)
AGENTS_keys == <<"mathew", "rahil", "shreyas", "siddarth">>

AGENTS == {AGENTS_keys[i] : i \in 1..Len(AGENTS_keys)}

\* "bob" stands for every id that is not in the roster
Ids == AGENTS \cup {"bob"}

Range(s) == {s[i] : i \in 1..Len(s)}

NoRepeat(s) == \A i, j \in 1..Len(s) : i # j => s[i] # s[j]

SeqsUpTo(S, n) == UNION {[1..k -> S] : k \in 0..n}

Pad(x) == [i \in 1..PadLen |-> x]

\* agent lists a classifier answers to an agent reply (tier 2)
ShortLists == SeqsUpTo(Ids, MaxOut)

\* long agent lists: a short list behind a run of one repeated roster id
PaddedLists == {Pad("rahil") \o s : s \in ShortLists}

Absent == -1

\* routing_data, the parsed JSON object of the classifier (it has the
\* required field 'agents', a list; the other fields may be absent)
RoutingData(agents, confidence, intent, targeted) ==
    [agents |-> agents, confidence |-> confidence, intent |-> intent,
     is_targeted |-> targeted]

Confidences == {Absent, 30, 95, 100}

Intents == {"absent", "greeting", "team_activation", "explicit_mention",
            "expertise_match"}

Targeted == {"absent", "true", "false"}

(***************************************************************************)
(* IntentRouter: validation of the classifier's answer.                    *)
(***************************************************************************)
InRoster(aid) == aid \in AGENTS

\* valid_agents = [aid for aid in routing_data['agents'] if aid in AGENTS]
valid_user_agents(routing_data) == SelectSeq(routing_data.agents, InRoster)

\* (faulty variant) no fallback to the roster
fallback_agents_None(valid_agents) == valid_agents

\* if not valid_agents: valid_agents = list(AGENTS.keys())
fallback_agents(valid_agents) ==
    IF valid_agents = <<>> THEN AGENTS_keys ELSE valid_agents

\* confidence=routing_data.get('confidence', 0.5), in percent
user_confidence(routing_data) ==
    IF routing_data.confidence = Absent THEN 50 ELSE routing_data.confidence

route_user_query(routing_data) ==
    [agent_ids |-> fallback_agents(valid_user_agents(routing_data)),
     is_targeted |-> (routing_data.is_targeted = "true"),
     confidence |-> user_confidence(routing_data),
     context |-> IF routing_data.intent = "absent" THEN "None"
                 ELSE routing_data.intent]

\* (faulty variant) the replying agent is not dropped
valid_reply_agents_KeepsSelf(a, routing_data) ==
    SelectSeq(routing_data.agents, InRoster)

\* valid_agents = [aid for aid in routing_data['agents']
\*                 if aid in AGENTS and aid != agent_id]
valid_reply_agents(a, routing_data) ==
    SelectSeq(routing_data.agents, LAMBDA aid : aid \in AGENTS /\ aid # a)

route_agent_response(a, routing_data) ==
    LET valid_agents == valid_reply_agents(a, routing_data)
    IN  [agent_ids |-> valid_agents,
         is_targeted |-> (Len(valid_agents) > 0),
         confidence |-> IF routing_data.confidence = Absent THEN 90
                        ELSE routing_data.confidence,
         context |-> "None"]


(***************************************************************************)
(* State of one Group-mode pass (_group_chat_dynamic_routing).             *)
(***************************************************************************)
VARIABLES
    pc,                    \* where the generator stands
    conversation_history,  \* the argument of the pass
    local_history,         \* the running history of the pass
    routing_decision,      \* <<>> before tier 1, then <<RoutingDecision>>
    agent_queue,
    responded_agents,
    agent_to_agent_round,
    iteration_count,
    agent_id,              \* the agent whose response is being generated
    response_chunks,       \* the chunks of that response so far
    out,                   \* the (agent_id, chunk) pairs yielded so far
    invocations,           \* observer: calls of agent.respond in this pass
    tier2,                 \* observer: outcome of the latest tier-2 check
    behind_failed,         \* observer: ids queued when a tier-2 call failed
    behind_error           \* observer: ids queued when a completion failed

groupVars == <<pc, conversation_history, local_history, routing_decision,
               agent_queue, responded_agents, agent_to_agent_round,
               iteration_count, agent_id, response_chunks, out, invocations,
               tier2, behind_failed, behind_error>>

(***************************************************************************)
(* A call of the IntentRouter on its own.                                  *)
(***************************************************************************)
VARIABLES
    router_call,     \* "none", "user", or the id of the replying agent
    router_data,     \* <<routing_data>> of the call, <<>> when it failed
    router_result    \* <<RoutingDecision>> returned, <<>> when it raised

routerVars == <<router_call, router_data, router_result>>

(***************************************************************************)
(* State of one Conference-mode pass (coordinate_conference).              *)
(***************************************************************************)
VARIABLES
    conf_pc,            \* where the generator stands
    conf_history,       \* local_history of the pass
    remaining_agents,
    conf_agent,         \* the agent whose response is being generated
    conf_chunks,        \* response_chunks of that response
    conf_out,           \* the (agent_id, chunk) pairs yielded so far
    conf_turns          \* observer: the agents whose turns were completed

confVars == <<conf_pc, conf_history, remaining_agents, conf_agent,
              conf_chunks, conf_out, conf_turns>>

(***************************************************************************)
(* State of one Think-Tank pass (think_tank_mode).                         *)
(***************************************************************************)
VARIABLES
    tt_pc,                        \* where the generator stands
    tt_conversation_history,      \* the argument of the pass
    tt_local_history,             \* the running history of the pass
    max_rounds,                   \* the argument of the pass
    reasoning_model,              \* "None" or the model of the synthesis
    tt_routing_decision,          \* <<>> before tier 1, then <<RoutingDecision>>
    participating_agents,
    discussion_round,
    consensus_reached,
    tt_agent_queue,               \* agent_queue of the round
    responded_agents_this_round,
    round_responses,              \* the agents of the turns of this round
    round_iteration_count,
    tt_agent_id,                  \* the agent whose response is generated
    tt_response_chunks,           \* response_chunks / summary_chunks so far
    all_round_responses,          \* round_responses of the finished rounds
    tt_out,                       \* the (agent_id, chunk) pairs yielded so far
    tt_invocations,               \* observer: calls of agent.respond
    rahil_client                  \* rahil.openai_client: "original" or a model

ttVars == <<tt_pc, tt_conversation_history, tt_local_history, max_rounds,
            reasoning_model, tt_routing_decision, participating_agents,
            discussion_round, consensus_reached, tt_agent_queue,
            responded_agents_this_round, round_responses,
            round_iteration_count, tt_agent_id, tt_response_chunks,
            all_round_responses, tt_out, tt_invocations, rahil_client>>

(***************************************************************************)
(* State of one WebSocket connection (websocket_endpoint).                 *)
(***************************************************************************)
VARIABLES
    ws_pc,          \* where the handler stands
    ws_mode,        \* mode of the chat message being processed
    ws_sent,        \* the types of the messages sent to the client so far
    ws_received     \* the messages received on this connection

\* The ConnectionManager.
VARIABLES
    active_connections,    \* self.active_connections, a list of websockets
    browser_sessions,      \* browser_session_id -> websocket, or "None"
    websocket_to_session   \* websocket -> browser_session_id, or "None"

connVars == <<active_connections, browser_sessions, websocket_to_session>>

wsVars == <<ws_pc, ws_mode, ws_sent, ws_received, connVars>>

\* the websocket of the handler that is followed, and one of another client
WebSockets == {"ws1", "ws2"}

BrowserIds == {"b1", "b2"}

NoBrowserSessions == [b \in BrowserIds |-> "None"]

NoWebsocketSessions == [w \in WebSockets |-> "None"]

\* One ConversationSession on its own: its messages, the turns that were
\* handed to add_message, and the last call of get_history.
VARIABLES
    messages,          \* ConversationSession.messages
    appended,          \* the messages add_message was called with, in order
    history_call,      \* "none", "default" (get_history()) or "max_messages"
    max_messages,      \* the value of max_messages in that call
    role_filter,       \* the value of role_filter in that call
    returned_history   \* what the call returned

histVars == <<messages, appended, history_call, max_messages, role_filter,
              returned_history>>

\* The ConversationManager and the tasks of one event loop that call it.
VARIABLES
    sessions,          \* self.sessions: session id -> session object, or 0
    session_objects,  \* every ConversationSession made so far, by number
    allocated,         \* how many session objects were made
    lock_holder,       \* the task inside "async with self._lock", or "None"
    lock_waiters,      \* the tasks suspended in acquire, oldest first
    running,           \* the task the event loop is running, or "None"
    tasks,             \* per task: the call it is in and where
    calls,             \* how many calls were started
    cleanup_due        \* time.time() - _last_cleanup > cleanup_interval

storeVars == <<sessions, session_objects, allocated, lock_holder,
               lock_waiters, running, tasks, calls, cleanup_due>>

\* One call of _detect_consensus.
VARIABLES
    dc_pc,             \* "idle", "call" or "returned"
    rounds_given,      \* len(all_round_responses)
    curr_round,        \* len(curr_round): the responses of the last round
    agreement_count,
    conflict_count,
    consensus_result   \* what the call returned, as <<numerator, denominator>>

consVars == <<dc_pc, rounds_given, curr_round, agreement_count,
              conflict_count, consensus_result>>

\* One call of MentionParser.has_mentions.
VARIABLES
    mp_pc,             \* "idle", "call" or "returned"
    mp_text,           \* the text of the call, a sequence of tokens
    mp_mentions,       \* what extract_mentions returned for it
    mp_result          \* what has_mentions returned

mentionVars == <<mp_pc, mp_text, mp_mentions, mp_result>>

\* A ConversationManager whose sessions age: appends and stale-session
\* sweeps, one call at a time.
VARIABLES
    sw_sessions,       \* self.sessions: id -> [last_active, messages]
    sw_now,            \* time.time(), in units of time
    sw_last_cleanup,   \* self._last_cleanup
    sw_returns,        \* what the calls of cleanup_stale_sessions returned
    sw_pc              \* "ready", or "blocked" in an acquire of the lock

sweepVars == <<sw_sessions, sw_now, sw_last_cleanup, sw_returns, sw_pc>>

\* The leader agent of the shared MultiAgentSystem and the Think-Tank
\* passes of two callers, each suspended at a yield between its steps.
VARIABLES
    leader_client,     \* rahil.openai_client: "original" or a reasoning model
    pass_pc,           \* per pass: where its generator stands
    pass_model,        \* per pass: reasoning_model
    original_client,   \* per pass: the local variable original_client
    leader_calls       \* the completions of the leader: pass, kind, client

leaderVars == <<leader_client, pass_pc, pass_model, original_client,
                leader_calls>>

\* the state outside the engines, the router and the handler
moreVars == <<histVars, storeVars, consVars, mentionVars, sweepVars,
              leaderVars>>

\* what a Group-mode step leaves alone
outsideGroup == <<routerVars, confVars, ttVars, wsVars, moreVars>>

\* what a call of the router on its own leaves alone
outsideRouter == <<groupVars, confVars, ttVars, wsVars, moreVars>>

\* what a Conference-mode step leaves alone
outsideConference == <<groupVars, routerVars, ttVars, wsVars, moreVars>>

\* what a Think-Tank step that does not delegate leaves alone
outsideThinkTank == <<groupVars, routerVars, confVars, wsVars, moreVars>>

\* what a step of the WebSocket handler leaves alone
outsideHandler == <<groupVars, routerVars, confVars, ttVars, moreVars>>

\* what a step of a session on its own leaves alone
outsideHistory ==
    <<groupVars, routerVars, confVars, ttVars, wsVars, storeVars, consVars,
      mentionVars, sweepVars, leaderVars>>

\* what a step of the store and its tasks leaves alone
outsideStore ==
    <<groupVars, routerVars, confVars, ttVars, wsVars, histVars, consVars,
      mentionVars, sweepVars, leaderVars>>

\* what a call of _detect_consensus leaves alone
outsideConsensus ==
    <<groupVars, routerVars, confVars, ttVars, wsVars, histVars, storeVars,
      mentionVars, sweepVars, leaderVars>>

\* what a call of has_mentions leaves alone
outsideMentions ==
    <<groupVars, routerVars, confVars, ttVars, wsVars, histVars, storeVars,
      consVars, sweepVars, leaderVars>>

\* what an append or a sweep of the ageing store leaves alone
outsideSweep ==
    <<groupVars, routerVars, confVars, ttVars, wsVars, histVars, storeVars,
      consVars, mentionVars, leaderVars>>

\* what a step of a pass that uses the leader's client leaves alone
outsideLeader ==
    <<groupVars, routerVars, confVars, ttVars, wsVars, histVars, storeVars,
      consVars, mentionVars, sweepVars>>

vars == <<groupVars, routerVars, confVars, ttVars, wsVars, moreVars>>

\* the session ids and the tasks of the store's runs
SessionIds == {"s1", "s2"}

Tasks == {"t1", "t2"}

\* the Think-Tank passes that share the leader
Passes == {"p1", "p2"}

\* a task that is in no call
NoCall ==
    [op |-> "None", pc |-> "idle", session_id |-> "None", session |-> 0,
     turn |-> 0, result |-> "None"]

HistoryIdle ==
    /\ messages = <<>>
    /\ appended = <<>>
    /\ history_call = "none"
    /\ max_messages = 0
    /\ role_filter = "None"
    /\ returned_history = <<>>

StoreIdle ==
    /\ sessions = [id \in SessionIds |-> 0]
    /\ session_objects = <<>>
    /\ allocated = 0
    /\ lock_holder = "None"
    /\ lock_waiters = <<>>
    /\ running = "None"
    /\ tasks = [t \in Tasks |-> NoCall]
    /\ calls = 0
    /\ cleanup_due = FALSE

ConsensusIdle ==
    /\ dc_pc = "idle"
    /\ rounds_given = 0
    /\ curr_round = 0
    /\ agreement_count = 0
    /\ conflict_count = 0
    /\ consensus_result = <<0, 1>>

MentionsIdle ==
    /\ mp_pc = "idle"
    /\ mp_text = <<>>
    /\ mp_mentions = {}
    /\ mp_result = FALSE

\* what sw_sessions holds for an id that is not in self.sessions
NoSession == [last_active |-> Absent, messages |-> <<>>]

\* self.sessions = {}; self._last_cleanup = time.time()
SweepIdle ==
    /\ sw_sessions = [id \in SessionIds |-> NoSession]
    /\ sw_now = 0
    /\ sw_last_cleanup = 0
    /\ sw_returns = <<>>
    /\ sw_pc = "ready"

\* the leader has the client it was constructed with, no pass has started
LeaderIdle ==
    /\ leader_client = "original"
    /\ pass_pc = [p \in Passes |-> "idle"]
    /\ pass_model = [p \in Passes |-> "None"]
    /\ original_client = [p \in Passes |-> "None"]
    /\ leader_calls = {}

MoreIdle ==
    /\ HistoryIdle
    /\ StoreIdle
    /\ ConsensusIdle
    /\ MentionsIdle
    /\ SweepIdle
    /\ LeaderIdle

ThinkTankIdle ==
    /\ tt_pc = "idle"
    /\ tt_conversation_history = <<>>
    /\ tt_local_history = <<>>
    /\ max_rounds = 0
    /\ reasoning_model = "None"
    /\ tt_routing_decision = <<>>
    /\ participating_agents = <<>>
    /\ discussion_round = 0
    /\ consensus_reached = FALSE
    /\ tt_agent_queue = <<>>
    /\ responded_agents_this_round = {}
    /\ round_responses = <<>>
    /\ round_iteration_count = 0
    /\ tt_agent_id = "None"
    /\ tt_response_chunks = <<>>
    /\ all_round_responses = <<>>
    /\ tt_out = <<>>
    /\ tt_invocations = 0
    /\ rahil_client = "original"

HandlerIdle ==
    /\ ws_pc = "idle"
    /\ ws_mode = "None"
    /\ ws_sent = <<>>
    /\ ws_received = 0
    /\ active_connections = <<>>
    /\ browser_sessions = NoBrowserSessions
    /\ websocket_to_session = NoWebsocketSessions

RouterIdle ==
    /\ router_call = "none"
    /\ router_data = <<>>
    /\ router_result = <<>>

ConferenceIdle ==
    /\ conf_pc = "idle"
    /\ conf_history = <<>>
    /\ remaining_agents = <<>>
    /\ conf_agent = "None"
    /\ conf_chunks = <<>>
    /\ conf_out = <<>>
    /\ conf_turns = <<>>

\* self.max_agent_to_agent_rounds = 2
max_agent_to_agent_rounds == 2

\* max_total_iterations = 10
max_total_iterations == 10

UserTurn == [role |-> "user", agent_id |-> "None", content |-> <<"text">>]

AgentTurn(a, chunks) == [role |-> "agent", agent_id |-> a, content |-> chunks]

Item(a, chunk) == [agent_id |-> a, chunk |-> chunk]

\* the conversation histories a pass is started with
Histories == {<<UserTurn, AgentTurn("rahil", <<"text">>), UserTurn>>}

\* what the tier-1 classifier answers in the engine's runs: a short list
\* with either intent, or a long list
TierOneData ==
    {RoutingData(agents, 95, intent, "absent") :
        agents \in ShortLists, intent \in {"greeting", "expertise_match"}}
    \cup {RoutingData(agents, 95, "expertise_match", "absent") :
            agents \in PaddedLists}

\* the decisions route_user_query returns for them
TierOneDecisions == {route_user_query(routing_data) : routing_data \in TierOneData}

\* what the tier-1 classifier answers in a pass that Think-Tank mode
\* delegates a greeting to
NestedTierOneData ==
    {RoutingData(agents, 95, "greeting", "absent") :
        agents \in {<<"rahil">>, <<"rahil", "mathew">>}}

NestedTierOneDecisions ==
    {route_user_query(routing_data) : routing_data \in NestedTierOneData}

\* the decisions tier 1 may return to this pass
TierOneAnswers ==
    IF tt_pc = "delegated" THEN NestedTierOneDecisions ELSE TierOneDecisions

\* the turns this pass appended to its running history
PassTurns ==
    SubSeq(local_history, Len(conversation_history) + 1, Len(local_history))

PassAgents == [i \in 1..Len(PassTurns) |-> PassTurns[i].agent_id]

GroupIdle ==
    /\ pc = "idle"
    /\ conversation_history = <<>>
    /\ local_history = <<>>
    /\ routing_decision = <<>>
    /\ agent_queue = <<>>
    /\ responded_agents = {}
    /\ agent_to_agent_round = 0
    /\ iteration_count = 0
    /\ agent_id = "None"
    /\ response_chunks = <<>>
    /\ out = <<>>
    /\ invocations = 0
    /\ tier2 = "none"
    /\ behind_failed = {}
    /\ behind_error = {}

\* local_history = conversation_history.copy() if conversation_history else []
InitGroup ==
    \E history \in Histories :
        /\ MoreIdle
        /\ RouterIdle
        /\ ConferenceIdle
        /\ ThinkTankIdle
        /\ HandlerIdle
        /\ pc = "start"
        /\ conversation_history = history
        /\ local_history = history
        /\ routing_decision = <<>>
        /\ agent_queue = <<>>
        /\ responded_agents = {}
        /\ agent_to_agent_round = 0
        /\ iteration_count = 0
        /\ agent_id = "None"
        /\ response_chunks = <<>>
        /\ out = <<>>
        /\ invocations = 0
        /\ tier2 = "none"
        /\ behind_failed = {}
        /\ behind_error = {}

\* Tier 1 succeeded: the queue is seeded with the decision's agent ids.
GroupRouteOk ==
    /\ UNCHANGED outsideGroup
    /\ pc = "start"
    /\ \E decision \in TierOneAnswers :
         /\ routing_decision' = <<decision>>
         /\ agent_queue' = decision.agent_ids
    /\ responded_agents' = {}
    /\ agent_to_agent_round' = 0
    /\ iteration_count' = 0
    /\ pc' = "loop"
    /\ UNCHANGED <<conversation_history, local_history, agent_id,
                   response_chunks, out, invocations, tier2, behind_failed,
                   behind_error>>

\* (faulty variant) the routing failure is not reported on the stream
routing_error_yield_Silent(o) == o

\* error_msg = f"[Routing Error: {e.message}]"; yield ("system", error_msg)
routing_error_yield(o) == Append(o, Item("system", "[Routing Error"))

\* Tier 1 raised IntentRouterError: yield ("system", "[Routing Error: ...]").
GroupRouteFail ==
    /\ UNCHANGED outsideGroup
    /\ pc = "start"
    /\ out' = routing_error_yield(out)
    /\ pc' = "error_yielded"
    /\ UNCHANGED <<conversation_history, local_history, routing_decision,
                   agent_queue, responded_agents, agent_to_agent_round,
                   iteration_count, agent_id, response_chunks, invocations,
                   tier2, behind_failed, behind_error>>

\* ... and, when the generator is resumed, raise.
GroupReraise ==
    /\ UNCHANGED outsideGroup
    /\ pc = "error_yielded"
    /\ pc' = "raised"
    /\ UNCHANGED <<conversation_history, local_history, routing_decision,
                   agent_queue, responded_agents, agent_to_agent_round,
                   iteration_count, agent_id, response_chunks, out,
                   invocations, tier2, behind_failed, behind_error>>

\* (faulty variant) the loop stops as soon as the round counter is at the cap
LoopCondition_StrictRound ==
    /\ agent_queue # <<>>
    /\ agent_to_agent_round < max_agent_to_agent_rounds
    /\ iteration_count < max_total_iterations

\* (faulty variant) the loop without its iteration cap
LoopCondition_NoIterationCap ==
    /\ agent_queue # <<>>
    /\ agent_to_agent_round <= max_agent_to_agent_rounds

\* while agent_queue and agent_to_agent_round <= self.max_agent_to_agent_rounds
\*       and iteration_count < max_total_iterations
LoopCondition ==
    /\ agent_queue # <<>>
    /\ agent_to_agent_round <= max_agent_to_agent_rounds
    /\ iteration_count < max_total_iterations

\* (faulty variant) the responded set is not consulted
AlreadyResponded_Never(a) == FALSE

\* if agent_id in responded_agents: continue
AlreadyResponded(a) == a \in responded_agents

\* One iteration up to the call of agent.respond: count, pop, skip or mark.
GroupDequeue ==
    /\ UNCHANGED outsideGroup
    /\ pc = "loop"
    /\ LoopCondition
    /\ iteration_count' = iteration_count + 1
    /\ agent_queue' = Tail(agent_queue)
    /\ LET a == Head(agent_queue)
       IN  IF AlreadyResponded(a) \/ a \notin AGENTS
           THEN /\ pc' = "loop"
                /\ UNCHANGED <<responded_agents, agent_id, response_chunks,
                               invocations>>
           ELSE /\ responded_agents' = responded_agents \cup {a}
                /\ agent_id' = a
                /\ response_chunks' = <<>>
                /\ invocations' = invocations + 1
                /\ pc' = "responding"
    /\ UNCHANGED <<conversation_history, local_history, routing_decision,
                   agent_to_agent_round, out, tier2, behind_failed,
                   behind_error>>

\* the chunk sequences a completion stream yields: text, or the
\* "[Error: ...]" chunk of a failed call (OpenAIClient.generate)
Streams == {<<"text">>, <<"[Error">>}

\* the stream ended with the chunk of a failed completion call
StreamFailed(chunks) == chunks # <<>> /\ chunks[Len(chunks)] = "[Error"

IsPrefix(s, t) == Len(s) <= Len(t) /\ SubSeq(t, 1, Len(s)) = s

CanYield(chunks, c) == \E t \in Streams : IsPrefix(Append(chunks, c), t)

\* The completion stream yields a text chunk.
GroupChunk ==
    /\ UNCHANGED outsideGroup
    /\ pc = "responding"
    /\ CanYield(response_chunks, "text")
    /\ response_chunks' = Append(response_chunks, "text")
    /\ out' = Append(out, Item(agent_id, "text"))
    /\ UNCHANGED <<pc, conversation_history, local_history, routing_decision,
                   agent_queue, responded_agents, agent_to_agent_round,
                   iteration_count, agent_id, invocations, tier2,
                   behind_failed, behind_error>>

\* (faulty variant) the exception of the completion call is not caught
completion_failure_pc_Uncaught == "raised"

\* OpenAIClient.generate: except Exception as e: yield f"[Error: {str(e)}]";
\* the generator of the pass goes on consuming the stream
completion_failure_pc == "responding"

\* The completion call fails: generate yields "[Error: ...]" as a chunk.
GroupChunkError ==
    /\ UNCHANGED outsideGroup
    /\ pc = "responding"
    /\ CanYield(response_chunks, "[Error")
    /\ response_chunks' = Append(response_chunks, "[Error")
    /\ out' = Append(out, Item(agent_id, "[Error"))
    /\ behind_error' = behind_error \cup Range(agent_queue)
    /\ pc' = completion_failure_pc
    /\ UNCHANGED <<conversation_history, local_history, routing_decision,
                   agent_queue, responded_agents, agent_to_agent_round,
                   iteration_count, agent_id, invocations, tier2,
                   behind_failed>>

\* for mentioned_agent_id in mention_routing.agent_ids:
\*     if mentioned_agent_id not in responded_agents
\*        and mentioned_agent_id not in agent_queue: agent_queue.append(...)
RECURSIVE enqueue_mentions(_, _, _)
enqueue_mentions(queue, mentioned, responded) ==
    IF mentioned = <<>> THEN queue
    ELSE LET m == Head(mentioned)
         IN  IF m \notin responded /\ m \notin Range(queue)
             THEN enqueue_mentions(Append(queue, m), Tail(mentioned), responded)
             ELSE enqueue_mentions(queue, Tail(mentioned), responded)

\* (faulty variant) every roster agent that has not responded is enqueued
after_mentions_Roster(queue, mention_routing, responded) ==
    enqueue_mentions(queue, AGENTS_keys, responded)

\* the queue after the mentions of a reply were routed
after_mentions(queue, mention_routing, responded) ==
    enqueue_mentions(queue, mention_routing.agent_ids, responded)

\* (faulty variant) every routed reply counts as a round
next_round_Always(round, queue_before, queue_after) == round + 1

\* if newly_added: agent_to_agent_round += 1
next_round(round, queue_before, queue_after) ==
    IF Len(queue_after) > Len(queue_before) THEN round + 1 ELSE round

\* what the tier-2 classifier answers in the engine's runs
TierTwoData == {RoutingData(agents, 95, "absent", "absent") : agents \in ShortLists}

\* the decisions route_agent_response returns for them, per replying agent
TierTwoDecisions ==
    [a \in AGENTS |->
        {route_agent_response(a, routing_data) : routing_data \in TierTwoData}]

\* local_history.append({... 'message': full_response ...})
append_turn(history, a, chunks) == Append(history, AgentTurn(a, chunks))

\* The stream is exhausted, no mention in the text: the turn is appended.
GroupFinishNoMentions ==
    /\ UNCHANGED outsideGroup
    /\ pc = "responding"
    /\ response_chunks \in Streams
    /\ local_history' = append_turn(local_history, agent_id, response_chunks)
    /\ tier2' = "no_mentions"
    /\ pc' = "loop"
    /\ UNCHANGED <<conversation_history, routing_decision, agent_queue,
                   responded_agents, agent_to_agent_round, iteration_count,
                   agent_id, response_chunks, out, invocations, behind_failed,
                   behind_error>>

\* (faulty variant) a tier-2 failure reaches the handler of the tier-1 failure
tier2_failure_pc_Fatal == "error_yielded"

\* except IntentRouterError as e: print(warning); pass
tier2_failure_pc == "loop"

\* The text has mentions and route_agent_response raised IntentRouterError.
GroupFinishTier2Failed ==
    /\ UNCHANGED outsideGroup
    /\ pc = "responding"
    /\ response_chunks \in Streams
    /\ response_chunks # <<>>
    /\ local_history' = append_turn(local_history, agent_id, response_chunks)
    /\ tier2' = "failed"
    /\ behind_failed' = behind_failed \cup Range(agent_queue)
    /\ pc' = tier2_failure_pc
    /\ UNCHANGED <<conversation_history, routing_decision, agent_queue,
                   responded_agents, agent_to_agent_round, iteration_count,
                   agent_id, response_chunks, out, invocations, behind_error>>

\* The text has mentions and route_agent_response returned a decision.
GroupFinishTier2Routed ==
    /\ UNCHANGED outsideGroup
    /\ pc = "responding"
    /\ response_chunks \in Streams
    /\ response_chunks # <<>>
    /\ local_history' = append_turn(local_history, agent_id, response_chunks)
    /\ \E queue \in {after_mentions(agent_queue, mention_routing,
                                      responded_agents) :
                          mention_routing \in TierTwoDecisions[agent_id]} :
         /\ agent_queue' = queue
         /\ agent_to_agent_round' =
                next_round(agent_to_agent_round, agent_queue, queue)
    /\ tier2' = "routed"
    /\ pc' = "loop"
    /\ UNCHANGED <<conversation_history, routing_decision, responded_agents,
                   iteration_count, agent_id, response_chunks, out,
                   invocations, behind_failed, behind_error>>

\* The while condition is false: the generator returns.
GroupExit ==
    /\ UNCHANGED outsideGroup
    /\ pc = "loop"
    /\ ~LoopCondition
    /\ pc' = "done"
    /\ UNCHANGED <<conversation_history, local_history, routing_decision,
                   agent_queue, responded_agents, agent_to_agent_round,
                   iteration_count, agent_id, response_chunks, out,
                   invocations, tier2, behind_failed, behind_error>>

GroupStep ==
    \/ GroupRouteOk
    \/ GroupRouteFail
    \/ GroupReraise
    \/ GroupDequeue
    \/ GroupChunk
    \/ GroupChunkError
    \/ GroupFinishNoMentions
    \/ GroupFinishTier2Failed
    \/ GroupFinishTier2Routed
    \/ GroupExit

\* A Group-mode pass on its own.
SpecGroup == InitGroup /\ [][GroupStep]_vars

\* The same, with the pass resumed by its consumer as long as it can run.
FairGroup == SpecGroup /\ WF_vars(GroupStep)


(***************************************************************************)
(* The IntentRouter called on its own, with every answer of the classifier.*)
(***************************************************************************)
RouterAnswers ==
    {RoutingData(agents, confidence, intent, targeted) :
        agents \in ShortLists, confidence \in Confidences,
        intent \in Intents, targeted \in Targeted}

InitRouter ==
    /\ MoreIdle
    /\ GroupIdle
    /\ ConferenceIdle
    /\ ThinkTankIdle
    /\ HandlerIdle
    /\ RouterIdle

\* route_user_query returns a decision
RouterUserQuery ==
    /\ router_call = "none"
    /\ \E routing_data \in RouterAnswers :
         /\ router_data' = <<routing_data>>
         /\ router_result' = <<route_user_query(routing_data)>>
    /\ router_call' = "user"
    /\ UNCHANGED outsideRouter

\* route_user_query raises IntentRouterError (the completion call failed
\* or its text has no JSON object with a list 'agents')
RouterUserQueryRaises ==
    /\ router_call = "none"
    /\ router_data' = <<>>
    /\ router_result' = <<>>
    /\ router_call' = "user"
    /\ UNCHANGED outsideRouter

\* route_agent_response returns a decision
RouterAgentResponse ==
    /\ router_call = "none"
    /\ \E a \in AGENTS, routing_data \in RouterAnswers :
         /\ router_call' = a
         /\ router_data' = <<routing_data>>
         /\ router_result' = <<route_agent_response(a, routing_data)>>
    /\ UNCHANGED outsideRouter

\* route_agent_response raises IntentRouterError
RouterAgentResponseRaises ==
    /\ router_call = "none"
    /\ \E a \in AGENTS : router_call' = a
    /\ router_data' = <<>>
    /\ router_result' = <<>>
    /\ UNCHANGED outsideRouter

\* The caller has consumed the decision; the router keeps no state.
RouterDone ==
    /\ router_call # "none"
    /\ router_call' = "none"
    /\ router_data' = <<>>
    /\ router_result' = <<>>
    /\ UNCHANGED outsideRouter

RouterStep ==
    \/ RouterDone
    \/ RouterUserQuery
    \/ RouterUserQueryRaises
    \/ RouterAgentResponse
    \/ RouterAgentResponseRaises

SpecRouter == InitRouter /\ [][RouterStep]_vars

\* the ids of the roster the classifier's answer names
NamedRosterIds == Range(router_data[1].agents) \cap AGENTS

UserQueryReturned == router_call = "user" /\ router_result # <<>>

ReplyRouted == router_call \in AGENTS /\ router_result # <<>>

FellBack == UserQueryReturned /\ NamedRosterIds = {}

\* C8: a decision route_user_query returns names at least one agent, and
\* when the classifier's answer names no roster id it is the whole roster.
C8_FallbackNeverEmpty ==
    UserQueryReturned =>
        /\ router_result[1].agent_ids # <<>>
        /\ NamedRosterIds = {} =>
               /\ Range(router_result[1].agent_ids) = AGENTS
               /\ Len(router_result[1].agent_ids) = Cardinality(AGENTS)

\* the classifier named only an id that is not in the roster
C8_Witness ==
    /\ FellBack
    /\ router_data[1].agents = <<"bob">>
    /\ Len(router_result[1].agent_ids) = 4

\* C9: a decision of either router operation names roster ids only, and a
\* decision about agent a's reply never names a.
C9_OnlyValidNoSelf ==
    router_result # <<>> =>
        /\ Range(router_result[1].agent_ids) \subseteq AGENTS
        /\ router_call \in AGENTS =>
               router_call \notin Range(router_result[1].agent_ids)

\* the classifier named the replying agent, an unknown id or both
C9_Witness ==
    /\ ReplyRouted
    /\ router_data[1].agents = <<router_call, "bob">>
    /\ router_result[1].agent_ids = <<>>

\* C10 as stated: the decision of a fallback to the whole roster carries the
\* reduced confidence 0.5, not the confidence the classifier reported.
C10_AsStated == FellBack => router_result[1].confidence = 50

\* a fallback whose classifier reported a confidence
C10_Witness ==
    /\ FellBack
    /\ router_data[1].confidence = 95

(***************************************************************************)
(* Conference mode (ConferenceOrchestrator.coordinate_conference).         *)
(***************************************************************************)
\* self.leader = 'rahil'
leader == "rahil"

\* Orchestrator.analyze_query, given the JSON array of the classifier:
\* agent_order = [a for a in agent_order if a in self.agents];
\* return agent_order if agent_order else list(self.agents.keys())
analyze_query(agent_order) ==
    LET valid == SelectSeq(agent_order, InRoster)
    IN  IF valid = <<>> THEN AGENTS_keys ELSE valid

\* ... and when the call fails or its text holds no JSON array: all agents
analyze_query_default == AGENTS_keys

\* a JSON array of the classifier that names every other agent twice
RepeatedOrder ==
    <<"mathew", "shreyas", "siddarth", "mathew", "shreyas", "siddarth">>

\* the orders analyze_query returns
AnalyzedOrders ==
    {analyze_query(agent_order) : agent_order \in ShortLists \cup {RepeatedOrder}}
    \cup {analyze_query_default}

\* Agent.build_messages: for msg in conversation_history[-5:]
context_window == 5

\* (faulty variant) only the latest turn of the history is put in
build_messages_LastOnly(history) ==
    SubSeq(history, Len(history), Len(history))

\* the turns of the history that build_messages puts between the system
\* prompt and the user query, in order
build_messages(history) ==
    SubSeq(history,
           IF Len(history) > context_window
               THEN Len(history) - context_window + 1 ELSE 1,
           Len(history))

\* remaining_agents = [a for a in remaining_agents if a != self.leader]
without_leader(agent_order) == SelectSeq(agent_order, LAMBDA a : a # leader)

InitConference ==
    /\ MoreIdle
    /\ GroupIdle
    /\ RouterIdle
    /\ ThinkTankIdle
    /\ HandlerIdle
    /\ conf_pc = "leader"
    /\ conf_history \in Histories
    /\ remaining_agents = <<>>
    /\ conf_agent = leader
    /\ conf_chunks = <<>>
    /\ conf_out = <<>>
    /\ conf_turns = <<>>

ConfResponding == conf_pc \in {"leader", "responding"}

\* The completion stream of the current agent yields a text chunk.
ConfChunk ==
    /\ ConfResponding
    /\ CanYield(conf_chunks, "text")
    /\ conf_chunks' = Append(conf_chunks, "text")
    /\ conf_out' = Append(conf_out, Item(conf_agent, "text"))
    /\ UNCHANGED <<conf_pc, conf_history, remaining_agents, conf_agent,
                   conf_turns, outsideConference>>

\* The completion call fails: generate yields "[Error: ...]" as a chunk.
ConfChunkError ==
    /\ ConfResponding
    /\ CanYield(conf_chunks, "[Error")
    /\ conf_chunks' = Append(conf_chunks, "[Error")
    /\ conf_out' = Append(conf_out, Item(conf_agent, "[Error"))
    /\ UNCHANGED <<conf_pc, conf_history, remaining_agents, conf_agent,
                   conf_turns, outsideConference>>

\* The leader's stream is exhausted: its turn is appended, then the order
\* classifier is asked and the leader is dropped from its answer.
ConfLeaderDone ==
    /\ conf_pc = "leader"
    /\ conf_chunks \in Streams
    /\ conf_history' = append_turn(conf_history, conf_agent, conf_chunks)
    /\ conf_turns' = Append(conf_turns, conf_agent)
    /\ \E agent_order \in AnalyzedOrders :
         remaining_agents' = without_leader(agent_order)
    /\ conf_pc' = "next"
    /\ UNCHANGED <<conf_agent, conf_chunks, conf_out, outsideConference>>

\* for agent_id in remaining_agents: the next agent starts its response.
ConfNextAgent ==
    /\ conf_pc = "next"
    /\ remaining_agents # <<>>
    /\ conf_agent' = Head(remaining_agents)
    /\ remaining_agents' = Tail(remaining_agents)
    /\ conf_chunks' = <<>>
    /\ conf_pc' = "responding"
    /\ UNCHANGED <<conf_history, conf_out, conf_turns, outsideConference>>

\* The stream of that agent is exhausted: its turn is appended.
ConfAgentDone ==
    /\ conf_pc = "responding"
    /\ conf_chunks \in Streams
    /\ conf_history' = append_turn(conf_history, conf_agent, conf_chunks)
    /\ conf_turns' = Append(conf_turns, conf_agent)
    /\ conf_pc' = "next"
    /\ UNCHANGED <<remaining_agents, conf_agent, conf_chunks, conf_out,
                   outsideConference>>

\* The list is exhausted: the generator returns.
ConfExit ==
    /\ conf_pc = "next"
    /\ remaining_agents = <<>>
    /\ conf_pc' = "done"
    /\ UNCHANGED <<conf_history, remaining_agents, conf_agent, conf_chunks,
                   conf_out, conf_turns, outsideConference>>

ConferenceStep ==
    \/ ConfChunk
    \/ ConfChunkError
    \/ ConfLeaderDone
    \/ ConfNextAgent
    \/ ConfAgentDone
    \/ ConfExit

SpecConference == InitConference /\ [][ConferenceStep]_vars

\* C3 as stated: in a Conference-mode pass no agent id appears twice in the
\* sequence of completed turns, whatever list the order classifier returns.
C3_AsStated == NoRepeat(conf_turns)

\* a pass ended in which the leader and two more agents completed a turn
C3_Witness ==
    /\ conf_pc = "done"
    /\ Len(conf_turns) = 3
    /\ conf_turns[1] = leader

(***************************************************************************)
(* Group mode: bounded work.                                               *)
(***************************************************************************)
\* the agents invoked in this pass, in order: the completed turns and the
\* response in progress
Invoked ==
    IF pc = "responding" THEN Append(PassAgents, agent_id) ELSE PassAgents

Min(a, b) == IF a <= b THEN a ELSE b

GroupEnded == pc \in {"done", "raised"}

\* C1: whatever the classifier answers at tier 1 and tier 2, a Group-mode
\* pass ends, after at most max_total_iterations (10) dequeues and at most
\* min(10, roster size) = 4 calls of agent.respond.
C1_GroupPassBounded ==
    /\ [](/\ iteration_count <= max_total_iterations
          /\ invocations <= Min(max_total_iterations, Cardinality(AGENTS))
          /\ Len(Invoked) = invocations)
    /\ <>GroupEnded

\* the iteration cap ended a pass whose queue was not empty
C1_Witness ==
    /\ pc = "done"
    /\ iteration_count = max_total_iterations
    /\ agent_queue # <<>>
    /\ invocations >= 2

\* C2: no agent id is invoked twice in a Group-mode pass, also when the
\* tier-1 list or a tier-2 answer repeats an id.
C2_NoAgentTwice == NoRepeat(Invoked) /\ Range(Invoked) = responded_agents

\* a pass ended in which the tier-1 list repeated an id and two agents spoke
C2_Witness ==
    /\ pc = "done"
    /\ routing_decision # <<>>
    /\ ~NoRepeat(routing_decision[1].agent_ids)
    /\ Len(PassAgents) >= 2

(***************************************************************************)
(* Group mode: failures of the tier-2 classifier and of the completion.    *)
(***************************************************************************)
\* the step that ends a turn whose tier-2 classification failed
Tier2FailedStep == pc = "responding" /\ pc' # "responding" /\ tier2' = "failed"

\* the pass ended with every id of the set invoked, or by the iteration cap
InvokedUnlessCapped(ids) ==
    pc = "done" =>
        \A x \in ids : x \in responded_agents
                       \/ iteration_count = max_total_iterations

\* C5 as stated: a failed tier-2 classification changes nothing, and the
\* agents queued behind the replying agent are all invoked before the pass
\* ends.
C5_AsStated == pc = "done" => behind_failed \subseteq responded_agents

\* C5 (amended): a failed tier-2 classification leaves the queue, the
\* responded set and the round counter as they were, yields nothing to the
\* caller, and the pass goes on with the loop: the agents queued behind the
\* replying agent are invoked unless the iteration cap ends the pass first.
C5_Tier2FailureIsNoFollowUp ==
    /\ [][Tier2FailedStep =>
            /\ agent_queue' = agent_queue
            /\ responded_agents' = responded_agents
            /\ agent_to_agent_round' = agent_to_agent_round
            /\ out' = out
            /\ pc' = "loop"]_vars
    /\ [](pc = "raised" => routing_decision = <<>>)
    /\ []InvokedUnlessCapped(behind_failed)

\* a pass ended in which an agent queued behind a failed tier-2 check spoke
C5_Witness ==
    /\ pc = "done"
    /\ behind_failed # {}
    /\ behind_failed \subseteq responded_agents
    /\ iteration_count < max_total_iterations

\* the step in which the completion call of the current agent fails
CompletionFailedStep ==
    pc = "responding" /\ ~StreamFailed(response_chunks)
                      /\ StreamFailed(response_chunks')

\* the step that ends a turn whose completion call failed
ErrorTurnEnds ==
    pc = "responding" /\ StreamFailed(response_chunks) /\ pc' # "responding"

\* C6 as stated: a failed completion becomes the agent's turn and the
\* agents queued behind it are all invoked before the pass ends.
C6_AsStated == pc = "done" => behind_error \subseteq responded_agents

\* C6 (amended): a failed completion is yielded as an "[Error" chunk of the
\* agent and appended to the running history as its turn, no exception
\* leaves the pass, the earlier turns stay as they were, and the agents
\* queued behind it are invoked unless the iteration cap ends the pass first.
C6_CompletionFailureIsTheTurn ==
    /\ [][CompletionFailedStep =>
            /\ out' = Append(out, Item(agent_id, "[Error"))
            /\ pc' = "responding"
            /\ local_history' = local_history
            /\ agent_queue' = agent_queue]_vars
    /\ [][ErrorTurnEnds =>
            /\ pc' = "loop"
            /\ local_history' =
                   Append(local_history, AgentTurn(agent_id, response_chunks))]_vars
    /\ [][IsPrefix(local_history, local_history')]_vars
    /\ [](pc = "raised" => routing_decision = <<>>)
    /\ []InvokedUnlessCapped(behind_error)

\* a pass ended in which an agent queued behind a failed completion spoke
\* after the error turn
C6_Witness ==
    /\ pc = "done"
    /\ Len(PassTurns) >= 3
    /\ StreamFailed(PassTurns[2].content)
    /\ PassTurns[3].agent_id \in behind_error
    /\ ~StreamFailed(PassTurns[1].content)

(***************************************************************************)
(* Think-Tank mode (MultiAgentSystem.think_tank_mode).                     *)
(***************************************************************************)
\* min_consensus: float = 0.85, in percent
min_consensus == 85

\* max_iterations_per_round = 10
max_iterations_per_round == 10

\* what _analyze_query_complexity returns for the user query
ReasoningModels == {"None", "o1-mini"}

\* the values of the argument max_rounds the passes are started with
RoundLimits == {1, 2}

\* ... and with the limits at which the rounds are skipped (0) and at which
\* a consensus can end them early (3)
RoundLimitsWide == {0, 1, 2, 3}

\* what the tier-1 classifier answers in a Think-Tank pass: a greeting, or
\* a list of experts (one of them long: an id repeated, then a second id)
ThinkTankTierOneData ==
    {RoutingData(<<"rahil">>, 95, "greeting", "absent")}
    \cup {RoutingData(agents, 95, "expertise_match", "absent") :
            agents \in {<<"rahil">>, <<"mathew", "rahil">>,
                        <<"mathew", "mathew">>, <<"bob", "shreyas">>,
                        Pad("rahil") \o <<"rahil", "mathew">>}}

ThinkTankTierOneDecisions ==
    {route_user_query(routing_data) : routing_data \in ThinkTankTierOneData}

\* what the tier-2 classifier answers in a Think-Tank pass
ThinkTankTierTwoData ==
    {RoutingData(agents, 95, "absent", "absent") :
        agents \in {<<>>, <<"rahil">>, <<"shreyas">>}}

ThinkTankTierTwoDecisions ==
    [a \in AGENTS |->
        {route_agent_response(a, routing_data) :
            routing_data \in ThinkTankTierTwoData}]

\* what _detect_consensus returns for the texts of a round, in percent: a
\* score below min_consensus, and one that is exactly min_consensus
ConsensusScores == {50, 85}

\* citations = self._parse_citations(full_response): the pattern
\* \[([A-Z][a-z]+):\s*([^\]]+)\] of a citation "[Skill: x]" also matches the
\* text "[Error: x]" of a failed completion call; the plain text of the
\* model's replies carries no citation
has_citations(chunks) == \E i \in 1..Len(chunks) : chunks[i] = "[Error"

\* response_data = {..., 'agent_id': agent_id, 'content': full_response,
\*                  'role': 'agent', 'round': discussion_round, ...}
ThinkTankTurn(a, chunks, round) ==
    [role |-> "agent", agent_id |-> a, content |-> chunks, round |-> round]

Event(type) == Item("system", type)

\* yield ("system", {"type": "consensus_update", "round": discussion_round,
\*                   "consensus": consensus_score})
ConsensusEvent(consensus_score) ==
    [agent_id |-> "system", chunk |-> "consensus_update",
     consensus |-> consensus_score]

\* (faulty variant) every classification is taken for a question
is_greeting_Never(decision) == FALSE

\* if routing_decision.context == "greeting"
is_greeting(decision) == decision.context = "greeting"

\* the stream the caller of the pass has seen: a delegated Group pass
\* yields through it (yield from)
ThinkTankStream == IF tt_pc = "delegated" THEN tt_out \o out ELSE tt_out

ThinkTankStarts(limits) ==
    \E history \in Histories, rounds \in limits,
       model \in ReasoningModels :
        /\ MoreIdle
        /\ GroupIdle
        /\ RouterIdle
        /\ ConferenceIdle
        /\ HandlerIdle
        /\ tt_pc = "start"
        /\ tt_conversation_history = history
        /\ tt_local_history = history
        /\ max_rounds = rounds
        /\ reasoning_model = model
        /\ tt_routing_decision = <<>>
        /\ participating_agents = <<>>
        /\ discussion_round = 0
        /\ consensus_reached = FALSE
        /\ tt_agent_queue = <<>>
        /\ responded_agents_this_round = {}
        /\ round_responses = <<>>
        /\ round_iteration_count = 0
        /\ tt_agent_id = "None"
        /\ tt_response_chunks = <<>>
        /\ all_round_responses = <<>>
        /\ tt_out = <<>>
        /\ tt_invocations = 0
        /\ rahil_client = "original"

InitThinkTank == ThinkTankStarts(RoundLimits)

\* yield ("system", {"type": "think_tank_start", ...})
TTStart ==
    /\ UNCHANGED outsideThinkTank
    /\ tt_pc = "start"
    /\ tt_out' = Append(tt_out, Event("think_tank_start"))
    /\ tt_pc' = "route"
    /\ UNCHANGED <<tt_conversation_history, tt_local_history, max_rounds,
                   reasoning_model, tt_routing_decision, participating_agents,
                   discussion_round, consensus_reached, tt_agent_queue,
                   responded_agents_this_round, round_responses,
                   round_iteration_count, tt_agent_id, tt_response_chunks,
                   all_round_responses, tt_invocations, rahil_client>>

\* Tier 1 succeeded, once for the pass. A greeting is handed to
\* group_chat_mode(user_query, conversation_history), which starts a Group
\* pass of its own; anything else goes to the rounds.
TTRouteOk ==
    /\ UNCHANGED <<routerVars, confVars, wsVars, moreVars>>
    /\ tt_pc = "route"
    /\ \E decision \in ThinkTankTierOneDecisions :
         /\ tt_routing_decision' = <<decision>>
         /\ participating_agents' = decision.agent_ids
         /\ IF is_greeting(decision)
            THEN /\ tt_pc' = "delegated"
                 /\ pc' = "start"
                 /\ conversation_history' = tt_conversation_history
                 /\ local_history' = tt_conversation_history
                 /\ UNCHANGED <<routing_decision, agent_queue,
                                responded_agents, agent_to_agent_round,
                                iteration_count, agent_id, response_chunks,
                                out, invocations, tier2, behind_failed,
                                behind_error>>
            ELSE /\ tt_pc' = "rounds"
                 /\ UNCHANGED groupVars
    /\ UNCHANGED <<tt_conversation_history, tt_local_history, max_rounds,
                   reasoning_model, discussion_round, consensus_reached,
                   tt_agent_queue, responded_agents_this_round,
                   round_responses, round_iteration_count, tt_agent_id,
                   tt_response_chunks, all_round_responses, tt_out,
                   tt_invocations, rahil_client>>

\* except Exception as e: yield ("system", {"type": "error", ...})
think_tank_error_yield(o) == Append(o, Event("error"))

\* Tier 1 raised: the handler of the pass yields the error event.
TTRouteFail ==
    /\ UNCHANGED outsideThinkTank
    /\ tt_pc = "route"
    /\ tt_out' = think_tank_error_yield(tt_out)
    /\ tt_pc' = "error_yielded"
    /\ UNCHANGED <<tt_conversation_history, tt_local_history, max_rounds,
                   reasoning_model, tt_routing_decision, participating_agents,
                   discussion_round, consensus_reached, tt_agent_queue,
                   responded_agents_this_round, round_responses,
                   round_iteration_count, tt_agent_id, tt_response_chunks,
                   all_round_responses, tt_invocations, rahil_client>>

\* ... and, when the generator is resumed, raise.
TTReraise ==
    /\ UNCHANGED outsideThinkTank
    /\ tt_pc = "error_yielded"
    /\ tt_pc' = "raised"
    /\ UNCHANGED <<tt_conversation_history, tt_local_history, max_rounds,
                   reasoning_model, tt_routing_decision, participating_agents,
                   discussion_round, consensus_reached, tt_agent_queue,
                   responded_agents_this_round, round_responses,
                   round_iteration_count, tt_agent_id, tt_response_chunks,
                   all_round_responses, tt_out, tt_invocations, rahil_client>>

\* The delegated Group pass returned: yield from ends, then return.
TTDelegateReturn ==
    /\ UNCHANGED outsideThinkTank
    /\ tt_pc = "delegated"
    /\ pc = "done"
    /\ tt_out' = tt_out \o out
    /\ tt_pc' = "done"
    /\ UNCHANGED <<tt_conversation_history, tt_local_history, max_rounds,
                   reasoning_model, tt_routing_decision, participating_agents,
                   discussion_round, consensus_reached, tt_agent_queue,
                   responded_agents_this_round, round_responses,
                   round_iteration_count, tt_agent_id, tt_response_chunks,
                   all_round_responses, tt_invocations, rahil_client>>

\* The delegated Group pass raised IntentRouterError: the handler of the
\* Think-Tank pass yields its error event.
TTDelegateRaised ==
    /\ UNCHANGED outsideThinkTank
    /\ tt_pc = "delegated"
    /\ pc = "raised"
    /\ tt_out' = think_tank_error_yield(tt_out \o out)
    /\ tt_pc' = "error_yielded"
    /\ UNCHANGED <<tt_conversation_history, tt_local_history, max_rounds,
                   reasoning_model, tt_routing_decision, participating_agents,
                   discussion_round, consensus_reached, tt_agent_queue,
                   responded_agents_this_round, round_responses,
                   round_iteration_count, tt_agent_id, tt_response_chunks,
                   all_round_responses, tt_invocations, rahil_client>>

\* (faulty variant) the rounds go on until a consensus
RoundsCondition_NoLimit == ~consensus_reached

\* while discussion_round < max_rounds and not consensus_reached
RoundsCondition == discussion_round < max_rounds /\ ~consensus_reached

\* (faulty variant) a round starts from the agents that responded in the
\* round before it
round_start_queue_Responders(participating, last_round) ==
    IF last_round = <<>> THEN participating ELSE last_round

\* agent_queue = participating_agents.copy()
round_start_queue(participating, last_round) == participating

\* A round starts: yield round_start, then the queue of the round is the
\* participating list again.
TTRoundStart ==
    /\ UNCHANGED outsideThinkTank
    /\ tt_pc = "rounds"
    /\ RoundsCondition
    /\ discussion_round' = discussion_round + 1
    /\ tt_out' = Append(tt_out, Event("round_start"))
    /\ tt_agent_queue' = round_start_queue(participating_agents, round_responses)
    /\ responded_agents_this_round' = {}
    /\ round_responses' = <<>>
    /\ round_iteration_count' = 0
    /\ tt_pc' = "round_loop"
    /\ UNCHANGED <<tt_conversation_history, tt_local_history, max_rounds,
                   reasoning_model, tt_routing_decision, participating_agents,
                   consensus_reached, tt_agent_id, tt_response_chunks,
                   all_round_responses, tt_invocations, rahil_client>>

\* while agent_queue and round_iteration_count < max_iterations_per_round
RoundLoopCondition ==
    /\ tt_agent_queue # <<>>
    /\ round_iteration_count < max_iterations_per_round

\* One iteration up to the call of agent.respond: count, pop, skip or mark.
TTDequeue ==
    /\ UNCHANGED outsideThinkTank
    /\ tt_pc = "round_loop"
    /\ RoundLoopCondition
    /\ round_iteration_count' = round_iteration_count + 1
    /\ tt_agent_queue' = Tail(tt_agent_queue)
    /\ LET a == Head(tt_agent_queue)
       IN  IF a \in responded_agents_this_round \/ a \notin AGENTS
           THEN /\ tt_pc' = "round_loop"
                /\ UNCHANGED <<responded_agents_this_round, tt_agent_id,
                               tt_response_chunks, tt_invocations>>
           ELSE /\ responded_agents_this_round' =
                       responded_agents_this_round \cup {a}
                /\ tt_agent_id' = a
                /\ tt_response_chunks' = <<>>
                /\ tt_invocations' = tt_invocations + 1
                /\ tt_pc' = "responding"
    /\ UNCHANGED <<tt_conversation_history, tt_local_history, max_rounds,
                   reasoning_model, tt_routing_decision, participating_agents,
                   discussion_round, consensus_reached, round_responses,
                   all_round_responses, tt_out, rahil_client>>

\* The completion stream yields a chunk of text.
TTChunk ==
    /\ UNCHANGED outsideThinkTank
    /\ tt_pc = "responding"
    /\ CanYield(tt_response_chunks, "text")
    /\ tt_response_chunks' = Append(tt_response_chunks, "text")
    /\ tt_out' = Append(tt_out, Item(tt_agent_id, "text"))
    /\ UNCHANGED <<tt_pc, tt_conversation_history, tt_local_history,
                   max_rounds, reasoning_model, tt_routing_decision,
                   participating_agents, discussion_round, consensus_reached,
                   tt_agent_queue, responded_agents_this_round,
                   round_responses, round_iteration_count, tt_agent_id,
                   all_round_responses, tt_invocations, rahil_client>>

\* The completion call fails: generate yields "[Error: ...]" as a chunk.
TTChunkError ==
    /\ UNCHANGED outsideThinkTank
    /\ tt_pc = "responding"
    /\ CanYield(tt_response_chunks, "[Error")
    /\ tt_response_chunks' = Append(tt_response_chunks, "[Error")
    /\ tt_out' = Append(tt_out, Item(tt_agent_id, "[Error"))
    /\ UNCHANGED <<tt_pc, tt_conversation_history, tt_local_history,
                   max_rounds, reasoning_model, tt_routing_decision,
                   participating_agents, discussion_round, consensus_reached,
                   tt_agent_queue, responded_agents_this_round,
                   round_responses, round_iteration_count, tt_agent_id,
                   all_round_responses, tt_invocations, rahil_client>>

\* local_history.append(response_data); round_responses.append(response_data);
\* if citations: yield ("system", {"type": "citations", ...})
TurnRecorded ==
    /\ tt_pc = "responding"
    /\ tt_response_chunks \in Streams
    /\ tt_local_history' =
           Append(tt_local_history,
                  ThinkTankTurn(tt_agent_id, tt_response_chunks,
                                discussion_round))
    /\ round_responses' = Append(round_responses, tt_agent_id)
    /\ tt_out' = IF has_citations(tt_response_chunks)
                 THEN Append(tt_out, Event("citations"))
                 ELSE tt_out
    /\ tt_pc' = "round_loop"
    /\ UNCHANGED <<tt_conversation_history, max_rounds, reasoning_model,
                   tt_routing_decision, participating_agents,
                   discussion_round, consensus_reached,
                   responded_agents_this_round, round_iteration_count,
                   tt_agent_id, tt_response_chunks, all_round_responses,
                   tt_invocations, rahil_client>>

\* The stream is exhausted, no mention in the text.
TTFinishNoMentions ==
    /\ UNCHANGED outsideThinkTank
    /\ TurnRecorded
    /\ UNCHANGED tt_agent_queue

\* The text has mentions and route_agent_response raised:
\* except Exception as e: print(warning)
TTFinishTier2Failed ==
    /\ UNCHANGED outsideThinkTank
    /\ TurnRecorded
    /\ tt_agent_queue' = tt_agent_queue

\* The text has mentions and route_agent_response returned a decision.
TTFinishTier2Routed ==
    /\ UNCHANGED outsideThinkTank
    /\ TurnRecorded
    /\ \E queue \in {after_mentions(tt_agent_queue, mention_routing,
                                      responded_agents_this_round) :
                          mention_routing \in
                              ThinkTankTierTwoDecisions[tt_agent_id]} :
         tt_agent_queue' = queue

\* The loop of the round is over: the round is stored, round_complete is
\* yielded.
TTRoundComplete ==
    /\ UNCHANGED outsideThinkTank
    /\ tt_pc = "round_loop"
    /\ ~RoundLoopCondition
    /\ all_round_responses' = Append(all_round_responses, round_responses)
    /\ tt_out' = Append(tt_out, Event("round_complete"))
    /\ tt_pc' = "round_completed"
    /\ UNCHANGED <<tt_conversation_history, tt_local_history, max_rounds,
                   reasoning_model, tt_routing_decision, participating_agents,
                   discussion_round, consensus_reached, tt_agent_queue,
                   responded_agents_this_round, round_responses,
                   round_iteration_count, tt_agent_id, tt_response_chunks,
                   tt_invocations, rahil_client>>

\* (faulty variant) the consensus is checked after every round
checks_consensus_Always(round) == TRUE

\* if discussion_round > 1: the check for consensus after a round
checks_consensus(round) == round > 1

\* if discussion_round > 1: ... is false after the first round
TTConsensusSkip ==
    /\ UNCHANGED outsideThinkTank
    /\ tt_pc = "round_completed"
    /\ ~checks_consensus(discussion_round)
    /\ tt_pc' = "rounds"
    /\ UNCHANGED <<tt_conversation_history, tt_local_history, max_rounds,
                   reasoning_model, tt_routing_decision, participating_agents,
                   discussion_round, consensus_reached, tt_agent_queue,
                   responded_agents_this_round, round_responses,
                   round_iteration_count, tt_agent_id, tt_response_chunks,
                   all_round_responses, tt_out, tt_invocations, rahil_client>>

\* consensus_score = self._detect_consensus(all_round_responses);
\* yield consensus_update; if consensus_score >= min_consensus: break
TTConsensusUpdate ==
    /\ UNCHANGED outsideThinkTank
    /\ tt_pc = "round_completed"
    /\ checks_consensus(discussion_round)
    /\ \E consensus_score \in ConsensusScores :
         /\ tt_out' = Append(tt_out, ConsensusEvent(consensus_score))
         /\ consensus_reached' = (consensus_score >= min_consensus)
    /\ tt_pc' = "rounds"
    /\ UNCHANGED <<tt_conversation_history, tt_local_history, max_rounds,
                   reasoning_model, tt_routing_decision, participating_agents,
                   discussion_round, tt_agent_queue,
                   responded_agents_this_round, round_responses,
                   round_iteration_count, tt_agent_id, tt_response_chunks,
                   all_round_responses, tt_invocations, rahil_client>>

\* The rounds are over: yield summary_start.
TTSummaryStart ==
    /\ UNCHANGED outsideThinkTank
    /\ tt_pc = "rounds"
    /\ ~RoundsCondition
    /\ tt_out' = Append(tt_out, Event("summary_start"))
    /\ tt_pc' = "summary_start"
    /\ UNCHANGED <<tt_conversation_history, tt_local_history, max_rounds,
                   reasoning_model, tt_routing_decision, participating_agents,
                   discussion_round, consensus_reached, tt_agent_queue,
                   responded_agents_this_round, round_responses,
                   round_iteration_count, tt_agent_id, tt_response_chunks,
                   all_round_responses, tt_invocations, rahil_client>>

\* if reasoning_model: rahil.openai_client = self._create_reasoning_client(..);
\* then rahil.respond(summary_prompt, local_history, mode="think_tank")
TTSynthesisBegin ==
    /\ UNCHANGED outsideThinkTank
    /\ tt_pc = "summary_start"
    /\ rahil_client' = IF reasoning_model # "None" THEN reasoning_model
                       ELSE rahil_client
    /\ tt_agent_id' = "rahil_summary"
    /\ tt_response_chunks' = <<>>
    /\ tt_invocations' = tt_invocations + 1
    /\ tt_pc' = "summarising"
    /\ UNCHANGED <<tt_conversation_history, tt_local_history, max_rounds,
                   reasoning_model, tt_routing_decision, participating_agents,
                   discussion_round, consensus_reached, tt_agent_queue,
                   responded_agents_this_round, round_responses,
                   round_iteration_count, all_round_responses, tt_out>>

\* The synthesis stream yields a chunk: yield ("rahil_summary", chunk).
TTSummaryChunk ==
    /\ UNCHANGED outsideThinkTank
    /\ tt_pc = "summarising"
    /\ \E c \in {"text", "[Error"} :
         /\ CanYield(tt_response_chunks, c)
         /\ tt_response_chunks' = Append(tt_response_chunks, c)
         /\ tt_out' = Append(tt_out, Item(tt_agent_id, c))
    /\ UNCHANGED <<tt_pc, tt_conversation_history, tt_local_history,
                   max_rounds, reasoning_model, tt_routing_decision,
                   participating_agents, discussion_round, consensus_reached,
                   tt_agent_queue, responded_agents_this_round,
                   round_responses, round_iteration_count, tt_agent_id,
                   all_round_responses, tt_invocations, rahil_client>>

\* (faulty variant) the pass goes back to the rounds after the synthesis
after_synthesis_pc_Again == "rounds"

\* after think_tank_complete nothing is left but the end of the generator
after_synthesis_pc == "complete"

\* The synthesis stream is exhausted: the client is restored and
\* think_tank_complete is yielded.
TTSynthesisEnd ==
    /\ UNCHANGED outsideThinkTank
    /\ tt_pc = "summarising"
    /\ tt_response_chunks \in Streams
    /\ rahil_client' = IF reasoning_model # "None" THEN "original"
                       ELSE rahil_client
    /\ tt_out' = Append(tt_out, Event("think_tank_complete"))
    /\ tt_pc' = after_synthesis_pc
    /\ UNCHANGED <<tt_conversation_history, tt_local_history, max_rounds,
                   reasoning_model, tt_routing_decision, participating_agents,
                   discussion_round, consensus_reached, tt_agent_queue,
                   responded_agents_this_round, round_responses,
                   round_iteration_count, tt_agent_id, tt_response_chunks,
                   all_round_responses, tt_invocations>>

\* The generator returns.
TTReturn ==
    /\ UNCHANGED outsideThinkTank
    /\ tt_pc = "complete"
    /\ tt_pc' = "done"
    /\ UNCHANGED <<tt_conversation_history, tt_local_history, max_rounds,
                   reasoning_model, tt_routing_decision, participating_agents,
                   discussion_round, consensus_reached, tt_agent_queue,
                   responded_agents_this_round, round_responses,
                   round_iteration_count, tt_agent_id, tt_response_chunks,
                   all_round_responses, tt_out, tt_invocations, rahil_client>>

ThinkTankStep ==
    \/ TTStart
    \/ TTRouteOk
    \/ TTRouteFail
    \/ TTReraise
    \/ TTDelegateReturn
    \/ TTDelegateRaised
    \/ TTRoundStart
    \/ TTDequeue
    \/ TTChunk
    \/ TTChunkError
    \/ TTFinishNoMentions
    \/ TTFinishTier2Failed
    \/ TTFinishTier2Routed
    \/ TTRoundComplete
    \/ TTConsensusSkip
    \/ TTConsensusUpdate
    \/ TTSummaryStart
    \/ TTSynthesisBegin
    \/ TTSummaryChunk
    \/ TTSynthesisEnd
    \/ TTReturn

(***************************************************************************)
(* The two engines that route with the IntentRouter: a Group-mode pass or  *)
(* a Think-Tank pass (which runs a Group pass of its own for a greeting).  *)
(***************************************************************************)
InitEngines == InitGroup \/ InitThinkTank

EnginesStep == GroupStep \/ ThinkTankStep

SpecEngines == InitEngines /\ [][EnginesStep]_vars

\* Think-Tank passes alone, over the wider set of round limits
InitRounds == ThinkTankStarts(RoundLimitsWide)

SpecThinkTank == InitRounds /\ [][EnginesStep]_vars

\* the tier-1 classification of a Group pass failed
GroupTierOneFailed == pc \in {"error_yielded", "raised"}

\* the tier-1 classification of a Think-Tank pass failed
ThinkTankTierOneFailed ==
    tt_pc \in {"error_yielded", "raised"} /\ tt_routing_decision = <<>>

\* C4: when route_user_query fails in a Group pass or in a Think-Tank pass,
\* the pass yields an error event, has invoked and invokes no agent (no agent
\* chunk, no round, no synthesis), holds no list of responders, and the one
\* thing it does when it is resumed is to raise.
C4_TierOneFailureAborts ==
    /\ [](GroupTierOneFailed =>
            /\ routing_decision = <<>>
            /\ agent_queue = <<>>
            /\ out = <<Item("system", "[Routing Error")>>
            /\ invocations = 0
            /\ local_history = conversation_history)
    /\ [](ThinkTankTierOneFailed =>
            /\ participating_agents = <<>>
            /\ ThinkTankStream = <<Event("think_tank_start"), Event("error")>>
            /\ tt_invocations = 0
            /\ discussion_round = 0
            /\ tt_local_history = tt_conversation_history
            /\ pc = "idle")
    /\ [](routing_decision = <<>> => agent_queue = <<>> /\ invocations = 0)
    /\ [](tt_pc # "idle" /\ tt_routing_decision = <<>> =>
            /\ participating_agents = <<>>
            /\ tt_invocations = 0
            /\ pc = "idle")
    /\ [](pc = "error_yielded" => ENABLED GroupReraise)
    /\ [](tt_pc = "error_yielded" => ENABLED TTReraise)
    /\ [][pc = "error_yielded" => pc' = "raised" /\ out' = out]_vars
    /\ [][ThinkTankTierOneFailed /\ tt_pc = "error_yielded" =>
            tt_pc' = "raised" /\ tt_out' = tt_out]_vars

\* a Think-Tank pass raised after its tier-1 classification failed
C4_Witness ==
    /\ tt_pc = "raised"
    /\ tt_routing_decision = <<>>
    /\ Len(tt_out) = 2
    /\ tt_out[2].chunk = "error"

(***************************************************************************)
(* The WebSocket handler (websocket_endpoint): the message loop of one     *)
(* connection. The Session Store's operations are coroutine functions that *)
(* the handler calls without awaiting them: `session` is a coroutine       *)
(* object, none of the calls touches the store, and                        *)
(* session.get_history(max_messages=20) raises AttributeError for every    *)
(* chat message, before the mode is looked at.                             *)
(***************************************************************************)
\* the values of "mode" in a chat message; "conference" stands for every
\* value that no branch of the handler matches
ChatModes == {"absent", "group", "orchestrator", "think_tank", "conference"}

\* mode = data.get("mode", "group")
chat_mode(mode) == IF mode = "absent" THEN "group" ELSE mode

Count(s, x) == Cardinality({i \in 1..Len(s) : s[i] = x})

\* the websocket the handler runs for
websocket == "ws1"

\* list.remove(x): the first x is taken out of the list
list_remove(list, x) ==
    LET first == CHOOSE i \in 1..Len(list) :
                     /\ list[i] = x
                     /\ \A j \in 1..(i - 1) : list[j] # x
    IN  SubSeq(list, 1, first - 1) \o SubSeq(list, first + 1, Len(list))

\* ConnectionManager.connect: self.active_connections.append(websocket)
connect(active, ws) == Append(active, ws)

\* ConnectionManager.register_session finds an earlier websocket of the
\* same browser session that is still active
must_close(id, ws) ==
    /\ browser_sessions[id] # "None"
    /\ browser_sessions[id] # ws
    /\ browser_sessions[id] \in Range(active_connections)

\* ConnectionManager.disconnect, for each of the three collections
active_after_disconnect(active, ws) ==
    IF ws \in Range(active) THEN list_remove(active, ws) ELSE active

browser_sessions_after_disconnect(by_browser, by_websocket, ws) ==
    IF by_websocket[ws] # "None" /\ by_browser[by_websocket[ws]] = ws
    THEN [by_browser EXCEPT ![by_websocket[ws]] = "None"]
    ELSE by_browser

websocket_to_session_after_disconnect(by_websocket, ws) ==
    [by_websocket EXCEPT ![ws] = "None"]

\* The handler has accepted its websocket (manager.connect), called
\* create_session without awaiting it, so that the store holds no session
\* for the connection, and sent "connected".  Another client may be
\* connected and registered.
InitHandler ==
    /\ MoreIdle
    /\ GroupIdle
    /\ RouterIdle
    /\ ConferenceIdle
    /\ ThinkTankIdle
    /\ ws_pc = "receive"
    /\ ws_mode = "None"
    /\ ws_sent = <<"connected">>
    /\ ws_received = 0
    /\ \/ /\ active_connections = connect(<<>>, websocket)
          /\ browser_sessions = NoBrowserSessions
          /\ websocket_to_session = NoWebsocketSessions
       \/ /\ active_connections = connect(<<"ws2">>, websocket)
          /\ browser_sessions = [NoBrowserSessions EXCEPT !["b1"] = "ws2"]
          /\ websocket_to_session = [NoWebsocketSessions EXCEPT !["ws2"] = "b1"]

\* a message arrives while the handler waits in websocket.receive()
Receiving == ws_pc = "receive" /\ ws_received < MaxMessages

\* message_type == "chat": add_user_message is called but not awaited, the
\* acknowledgment is sent.
WSReceiveChat ==
    /\ UNCHANGED <<outsideHandler, connVars>>
    /\ Receiving
    /\ ws_received' = ws_received + 1
    /\ \E mode \in ChatModes : ws_mode' = chat_mode(mode)
    /\ ws_sent' = Append(ws_sent, "processing")
    /\ ws_pc' = "processing"

\* (faulty variant) the handler of the exception sends the error only
after_error_pc_NoReset == "receive"

\* except Exception as e: send error, then "Send all_complete to reset
\* frontend state"
after_error_pc == "error_sent"

\* conversation_history = session.get_history(max_messages=20) raises
\* AttributeError; except Exception as e: the error message is sent.
WSChatFails ==
    /\ UNCHANGED <<outsideHandler, connVars>>
    /\ ws_pc = "processing"
    /\ ws_sent' = Append(ws_sent, "error")
    /\ ws_pc' = after_error_pc
    /\ UNCHANGED <<ws_mode, ws_received>>

\* ... and all_complete is sent; the handler waits for the next message.
WSAllComplete ==
    /\ UNCHANGED <<outsideHandler, connVars>>
    /\ ws_pc = "error_sent"
    /\ ws_sent' = Append(ws_sent, "all_complete")
    /\ ws_pc' = "receive"
    /\ UNCHANGED <<ws_mode, ws_received>>

\* message_type == "ping"
WSPing ==
    /\ UNCHANGED <<outsideHandler, connVars>>
    /\ Receiving
    /\ ws_received' = ws_received + 1
    /\ ws_sent' = Append(ws_sent, "pong")
    /\ UNCHANGED <<ws_pc, ws_mode>>

\* message_type == "clear_history": clear_session_history is called but not
\* awaited, history_cleared is sent
WSClearHistory ==
    /\ UNCHANGED <<outsideHandler, connVars>>
    /\ Receiving
    /\ ws_received' = ws_received + 1
    /\ ws_sent' = Append(ws_sent, "history_cleared")
    /\ UNCHANGED <<ws_pc, ws_mode>>

\* (faulty variant) the exception of receive or json.loads leaves the loop
after_bad_message_pc_Break == "failed"

\* except Exception as e: ... continue  # Don't break
after_bad_message_pc == "receive"

\* websocket.receive() or json.loads raises: an error is sent and the loop
\* continues
WSBadMessage ==
    /\ UNCHANGED <<outsideHandler, connVars>>
    /\ Receiving
    /\ ws_received' = ws_received + 1
    /\ ws_sent' = Append(ws_sent, "error")
    /\ ws_pc' = after_bad_message_pc
    /\ UNCHANGED ws_mode

\* message_type == "register_session": without a browser_session_id
\* nothing is done; with one, an earlier active websocket of that browser
\* session is closed and forgotten (unless closing it raises), and this
\* websocket is registered.
WSRegisterSession ==
    /\ UNCHANGED outsideHandler
    /\ Receiving
    /\ ws_received' = ws_received + 1
    /\ \/ UNCHANGED connVars
       \/ \E id \in BrowserIds, close_raises \in BOOLEAN :
            LET old_websocket == browser_sessions[id]
                closed == must_close(id, websocket) /\ ~close_raises
            IN  /\ active_connections' =
                       IF closed
                       THEN list_remove(active_connections, old_websocket)
                       ELSE active_connections
                /\ browser_sessions' =
                       [browser_sessions EXCEPT ![id] = websocket]
                /\ websocket_to_session' =
                       [(IF closed
                         THEN [websocket_to_session
                                   EXCEPT ![old_websocket] = "None"]
                         ELSE websocket_to_session)
                            EXCEPT ![websocket] = id]
    /\ UNCHANGED <<ws_pc, ws_mode, ws_sent>>

\* message["type"] == "websocket.disconnect": break
WSDisconnect ==
    /\ UNCHANGED <<outsideHandler, connVars>>
    /\ ws_pc = "receive"
    /\ ws_pc' = "closed"
    /\ UNCHANGED <<ws_mode, ws_sent, ws_received>>

HandlerStep ==
    \/ WSReceiveChat
    \/ WSChatFails
    \/ WSAllComplete
    \/ WSPing
    \/ WSClearHistory
    \/ WSBadMessage
    \/ WSRegisterSession
    \/ WSDisconnect

SpecHandler == InitHandler /\ [][HandlerStep]_vars

\* A send to the client raises, WebSocketDisconnect or another exception:
\* the reply to a ping or to clear_history, the error message of a failed
\* chat, or its all_complete.  The exception leaves the loop; either
\* except clause calls delete_session without awaiting it and then
\* manager.disconnect(websocket).
WSSendRaises ==
    /\ UNCHANGED outsideHandler
    /\ \/ Receiving /\ ws_received' = ws_received + 1
       \/ ws_pc \in {"processing", "error_sent"} /\ UNCHANGED ws_received
    /\ \E clause \in {"disconnected", "failed"} : ws_pc' = clause
    /\ active_connections' =
           active_after_disconnect(active_connections, websocket)
    /\ browser_sessions' =
           browser_sessions_after_disconnect(browser_sessions,
                                             websocket_to_session, websocket)
    /\ websocket_to_session' =
           websocket_to_session_after_disconnect(websocket_to_session,
                                                 websocket)
    /\ UNCHANGED <<ws_mode, ws_sent>>

ConnectionStep == HandlerStep \/ WSSendRaises

\* The handler with a client whose connection may fail.
SpecConnection == InitHandler /\ [][ConnectionStep]_vars

\* The same, with the handler's coroutine running on whenever it is not
\* waiting for a message.
FairHandler == SpecHandler /\ WF_vars(WSChatFails \/ WSAllComplete)

C11_RoutedMessageGetsATurn ==
    /\ pc = "done" =>
           /\ routing_decision # <<>>
           /\ Len(PassTurns) >= 1
           /\ PassTurns[1].role = "agent"
           /\ PassTurns[1].agent_id = routing_decision[1].agent_ids[1]
    /\ routing_decision # <<>> => pc # "raised"
    /\ pc = "raised" => out = <<Item("system", "[Routing Error")>>

\* a pass ended whose classifier named no roster id: the roster responded
C11_Witness ==
    /\ pc = "done"
    /\ routing_decision # <<>>
    /\ routing_decision[1].agent_ids = AGENTS_keys
    /\ PassAgents = AGENTS_keys

(***************************************************************************)
(* Conference mode: the leader speaks first and is heard by the others.    *)
(***************************************************************************)
\* the place in the shared history of the leader's turn of this pass
LeaderTurnIndex == Len(conf_history) - Len(conf_turns) + 1

\* the prompt context of the agent that is responding holds the leader's
\* turn of this pass
ContextHasLeaderTurn ==
    LET context == build_messages(conf_history)
        dropped == Len(conf_history) - Len(context)
    IN  /\ LeaderTurnIndex > dropped
        /\ context[LeaderTurnIndex - dropped] = conf_history[LeaderTurnIndex]
        /\ context[LeaderTurnIndex - dropped].agent_id = leader

\* C12, as stated: the leader's turn is the first completed turn of a
\* Conference pass, the order classifier has not been consulted before it,
\* and the prompt context of every agent that responds after the leader
\* contains the leader's completed turn.
C12_AsStated ==
    /\ conf_turns # <<>> => conf_turns[1] = leader
    /\ conf_pc = "leader" => remaining_agents = <<>> /\ conf_turns = <<>>
    /\ conf_pc = "responding" => ContextHasLeaderTurn

\* the sixth agent after the leader is responding: five turns lie between
\* the leader's turn and the prompt
C12_Witness ==
    /\ conf_pc = "responding"
    /\ Len(conf_turns) = context_window + 1
    /\ conf_turns[1] = leader
    /\ ~ContextHasLeaderTurn

(***************************************************************************)
(* Think-Tank mode: the closing synthesis.                                 *)
(***************************************************************************)
\* the places of the stream of the pass at which an item of type t stands
EventsAt(t) == {i \in 1..Len(tt_out) : tt_out[i] = Event(t)}

\* the places at which a chunk of the synthesis turn stands
SummaryChunksAt == {i \in 1..Len(tt_out) : tt_out[i].agent_id = "rahil_summary"}

\* the places at which a chunk of a turn of a discussion round stands
RoundChunksAt == {i \in 1..Len(tt_out) : tt_out[i].agent_id \in AGENTS}

\* tier 1 of the pass succeeded with an intent other than greeting
Discussing ==
    /\ tt_routing_decision # <<>>
    /\ ~is_greeting(tt_routing_decision[1])

SynthesisEnded == tt_pc \in {"complete", "done"}

Greeted ==
    /\ tt_routing_decision # <<>>
    /\ tt_routing_decision[1].context = "greeting"

IsAgentItem(item) == item.agent_id \in AGENTS

\* the types of the events only a discussion yields
DiscussionEvents ==
    {"round_start", "round_complete", "consensus_update", "summary_start",
     "think_tank_complete"}

\* C14: when tier 1 of a Think-Tank pass answers greeting, no round starts,
\* no consensus is checked and no synthesis is made: no event of a
\* discussion and no chunk of the leader's synthesis is on the stream, the
\* Think-Tank pass invokes no agent itself, and the agent chunks on its
\* stream are those of the one Group pass that was started with the same
\* history; when that pass returns, the stream is think_tank_start followed
\* by the stream of the Group pass.
C14_GreetingIsOneGroupPass ==
    Greeted =>
        /\ tt_pc \in {"delegated", "error_yielded", "raised", "done"}
        /\ discussion_round = 0
        /\ tt_invocations = 0
        /\ ~consensus_reached
        /\ all_round_responses = <<>>
        /\ tt_local_history = tt_conversation_history
        /\ \A i \in 1..Len(ThinkTankStream) :
             /\ ThinkTankStream[i].agent_id # "rahil_summary"
             /\ ThinkTankStream[i].agent_id = "system"
                    => ThinkTankStream[i].chunk \notin DiscussionEvents
        /\ pc # "idle"
        /\ conversation_history = tt_conversation_history
        /\ SelectSeq(ThinkTankStream, IsAgentItem) = SelectSeq(out, IsAgentItem)
        /\ tt_pc = "done" =>
             /\ pc = "done"
             /\ tt_out = <<Event("think_tank_start")>> \o out
             /\ Len(PassTurns) >= 1

\* a greeting pass returned after two agents of the Group pass replied
C14_Witness ==
    /\ Greeted
    /\ tt_pc = "done"
    /\ Len(PassTurns) = 2
    /\ Len(SelectSeq(tt_out, IsAgentItem)) >= 2

(***************************************************************************)
(* Think-Tank mode: how many rounds run.                                   *)
(***************************************************************************)
\* the places of the stream at which a consensus score was reported
ConsensusChecksAt ==
    {i \in 1..Len(tt_out) : tt_out[i].chunk = "consensus_update"
                             /\ tt_out[i].agent_id = "system"}

\* the round loop is over: summary_start has been yielded
RoundsOver == EventsAt("summary_start") # {}

\* C15: the number of rounds never exceeds max_rounds; no consensus check
\* is made after round 1 (round r is followed by a check exactly when
\* r >= 2); a score at or above min_consensus is the last thing the loop
\* does; when the loop is over with fewer than max_rounds rounds run, it
\* ended right after the check of a round r >= 2 whose score was at or
\* above min_consensus; and when every checked score was below
\* min_consensus, exactly max_rounds rounds were run.
C15_RoundsBounded ==
    LET starts == EventsAt("round_start")
        completes == EventsAt("round_complete")
        checks == ConsensusChecksAt
    IN  /\ discussion_round <= max_rounds
        /\ Cardinality(starts) = discussion_round
        /\ Cardinality(completes) <= discussion_round
        /\ \A i \in checks :
             /\ i > 1 /\ tt_out[i - 1] = Event("round_complete")
             /\ Cardinality({j \in completes : j < i}) >= 2
             /\ tt_out[i].consensus >= min_consensus =>
                  /\ consensus_reached
                  /\ \A j \in starts : j < i
        /\ \A i \in completes :
             Cardinality({j \in completes : j <= i}) >= 2
                 => tt_pc = "round_completed" \/ (i + 1) \in checks
        /\ RoundsOver =>
             /\ discussion_round < max_rounds =>
                  /\ discussion_round >= 2
                  /\ \E i \in checks :
                       /\ tt_out[i].consensus >= min_consensus
                       /\ tt_out[i + 1] = Event("summary_start")
             /\ (\A i \in checks : tt_out[i].consensus < min_consensus)
                    => discussion_round = max_rounds

\* a pass with max_rounds = 3 whose second round reached the consensus
C15_Witness ==
    /\ RoundsOver
    /\ max_rounds = 3
    /\ discussion_round = 2
    /\ consensus_reached
    /\ Cardinality(ConsensusChecksAt) = 1

(***************************************************************************)
(* ConversationSession: add_message and get_history.                       *)
(***************************************************************************)
\* def get_history(self, max_messages: int = 20, role_filter=None)
default_max_messages == 20

\* how many turns are appended to the session
MaxTurns == 21

\* the largest max_messages a call names
MaxAsked == 3

\* the i-th turn handed to add_message: user and agent turns alternate
Turn(i) == [role |-> IF i % 2 = 1 THEN "user" ELSE "agent", content |-> i]

\* self.messages.append({**message, 'timestamp': time.time()})
add_message(msgs, message) == Append(msgs, message)

\* (faulty variant) the first n messages instead of the last n
slice_from_end_Head(msgs, n) ==
    SubSeq(msgs, 1, IF n < Len(msgs) THEN n ELSE Len(msgs))

\* messages[-n:] for n # 0: the last n messages, all of them when n is
\* larger than their number; for a negative n, all but the first -n
slice_from_end(msgs, n) ==
    IF n > 0
    THEN SubSeq(msgs, IF n < Len(msgs) THEN Len(msgs) - n + 1 ELSE 1, Len(msgs))
    ELSE SubSeq(msgs, 1 - n, Len(msgs))

\* ConversationSession.get_history
get_history(msgs, n, filter) ==
    LET filtered == IF filter # "None"
                    THEN SelectSeq(msgs, LAMBDA message : message.role = filter)
                    ELSE msgs
    IN  IF n # 0 THEN slice_from_end(filtered, n) ELSE filtered

InitHistory ==
    /\ GroupIdle
    /\ RouterIdle
    /\ ConferenceIdle
    /\ ThinkTankIdle
    /\ HandlerIdle
    /\ StoreIdle
    /\ ConsensusIdle
    /\ MentionsIdle
    /\ SweepIdle
    /\ LeaderIdle
    /\ HistoryIdle

\* session.add_message(message); what an earlier call of get_history
\* returned is not looked at again
HistAddMessage ==
    /\ Len(appended) < MaxTurns
    /\ messages' = add_message(messages, Turn(Len(appended) + 1))
    /\ appended' = Append(appended, Turn(Len(appended) + 1))
    /\ history_call' = "none"
    /\ max_messages' = 0
    /\ role_filter' = "None"
    /\ returned_history' = <<>>
    /\ UNCHANGED outsideHistory

\* session.get_history()
HistGetDefault ==
    /\ history_call' = "default"
    /\ max_messages' = default_max_messages
    /\ role_filter' = "None"
    /\ returned_history' = get_history(messages, default_max_messages, "None")
    /\ UNCHANGED <<messages, appended, outsideHistory>>

\* session.get_history(max_messages=n, role_filter=f)
HistGet ==
    /\ \E n \in 0..MaxAsked, f \in {"None", "user"} :
         /\ max_messages' = n
         /\ role_filter' = f
         /\ returned_history' = get_history(messages, n, f)
    /\ history_call' = "max_messages"
    /\ UNCHANGED <<messages, appended, outsideHistory>>

HistoryStep == HistAddMessage \/ HistGetDefault \/ HistGet

SpecHistory == InitHistory /\ [][HistoryStep]_vars

\* the last k of the turns handed to add_message
LastAppended(k) == SubSeq(appended, Len(appended) - k + 1, Len(appended))

\* C16, as stated: get_history() returns the appended turns in append
\* order, and get_history(max_messages=n) with n >= 1 returns the last
\* min(n, length) appended turns in that order.
C16_AsStated ==
    /\ history_call = "default" => returned_history = appended
    /\ history_call = "max_messages" /\ max_messages >= 1
       /\ role_filter = "None"
           => returned_history = LastAppended(Min(max_messages, Len(appended)))

\* C16, amended: get_history() returns the last min(20, length) appended
\* turns in append order, and get_history(max_messages=n) with n >= 1
\* returns the last min(n, length) appended turns in that order.
C16_LastTurnsInOrder ==
    /\ history_call = "default"
           => returned_history =
                  LastAppended(Min(default_max_messages, Len(appended)))
    /\ history_call = "max_messages" /\ max_messages >= 1
       /\ role_filter = "None"
           => returned_history = LastAppended(Min(max_messages, Len(appended)))

\* get_history() after 21 appends: 20 turns, the first appended is not in
C16_Witness ==
    /\ history_call = "default"
    /\ Len(appended) = default_max_messages + 1
    /\ Len(returned_history) = default_max_messages
    /\ returned_history[1] = Turn(2)

(***************************************************************************)
(* ConversationManager: the session store, called by the tasks of one      *)
(* event loop.  A task runs until it is suspended or its call returns.     *)
(***************************************************************************)
\* how many calls the tasks make
MaxCalls == 3

Operations ==
    {"get_or_create_session", "add_user_message", "add_agent_message",
     "get_session", "delete_session"}

\* ConversationSession(session_id=session_id, metadata=metadata or {});
\* removed tells whether delete_session took the object out of the store
ConversationSession(session_id) ==
    [session_id |-> session_id, messages |-> <<>>, removed |-> FALSE]

\* the message add_user_message or add_agent_message appends
StoredTurn(op, n) ==
    [role |-> IF op = "add_user_message" THEN "user" ELSE "agent",
     content |-> n]

InitStore ==
    /\ GroupIdle
    /\ RouterIdle
    /\ ConferenceIdle
    /\ ThinkTankIdle
    /\ HandlerIdle
    /\ HistoryIdle
    /\ ConsensusIdle
    /\ MentionsIdle
    /\ SweepIdle
    /\ LeaderIdle
    /\ StoreIdle

\* the statement "async with self._lock" a call starts with
first_pc(op) ==
    CASE op = "get_session" -> "acquire_get"
      [] op = "delete_session" -> "acquire_delete"
      [] OTHER -> "acquire_get_or_create"

\* what follows when the lock is held
locked_pc(acquire_pc) ==
    CASE acquire_pc = "acquire_get" -> "get"
      [] acquire_pc = "acquire_delete" -> "delete"
      [] acquire_pc = "acquire_get_or_create" -> "get_or_create"
      [] acquire_pc = "acquire_create" -> "create"
      [] acquire_pc = "acquire_cleanup" -> "cleanup"

AcquirePcs ==
    {"acquire_get", "acquire_delete", "acquire_get_or_create",
     "acquire_create", "acquire_cleanup"}

Suspended(t) == \E i \in 1..Len(lock_waiters) : lock_waiters[i] = t

\* the event loop may run task t: it is the running task, or no task runs
CanRun(t) == running = t \/ (running = "None" /\ ~Suspended(t))

\* A task calls a method of the store.
StoreCall(t) ==
    /\ running = "None"
    /\ tasks[t].pc \in {"idle", "returned"}
    /\ calls < MaxCalls
    /\ \E op \in Operations, id \in SessionIds :
         tasks' = [tasks EXCEPT ![t] =
                      [op |-> op, pc |-> first_pc(op), session_id |-> id,
                       session |-> 0, turn |-> calls + 1, result |-> "None"]]
    /\ calls' = calls + 1
    /\ running' = t
    /\ UNCHANGED <<sessions, session_objects, allocated, lock_holder,
                   lock_waiters, cleanup_due, outsideStore>>

\* (faulty variant) acquire always lets the other tasks run first
acquire_suspends_Always == TRUE

\* asyncio.Lock.acquire takes a free lock that nobody waits for at once,
\* and suspends the task otherwise
acquire_suspends == lock_holder # "None" \/ lock_waiters # <<>>

\* async with self._lock: the lock is taken, or the task is suspended; a
\* suspended task goes on when the lock was released and it is the one
\* that waited longest.
StoreAcquire(t) ==
    /\ tasks[t].pc \in AcquirePcs
    /\ \/ /\ CanRun(t)
          /\ IF acquire_suspends
             THEN /\ lock_waiters' = Append(lock_waiters, t)
                  /\ running' = "None"
                  /\ UNCHANGED <<lock_holder, tasks>>
             ELSE /\ lock_holder' = t
                  /\ tasks' = [tasks EXCEPT ![t].pc = locked_pc(@)]
                  /\ running' = t
                  /\ UNCHANGED lock_waiters
       \/ /\ running = "None"
          /\ lock_holder = "None"
          /\ lock_waiters # <<>>
          /\ Head(lock_waiters) = t
          /\ lock_waiters' = Tail(lock_waiters)
          /\ lock_holder' = t
          /\ tasks' = [tasks EXCEPT ![t].pc = locked_pc(@)]
          /\ running' = t
    /\ UNCHANGED <<sessions, session_objects, allocated, calls, cleanup_due,
                   outsideStore>>

\* get_or_create_session has its session: it returns, and add_user_message
\* or add_agent_message goes on to session.add_message
got_session_pc(op) ==
    IF op = "get_or_create_session" THEN "returned" ELSE "add_message"

\* the task runs on unless its call returned
still_running(t, next_pc) == IF next_pc = "returned" THEN "None" ELSE t

\* if session_id in self.sessions: return self.sessions[session_id];
\* otherwise the lock is released and create_session is called
StoreGetOrCreate(t) ==
    /\ CanRun(t)
    /\ tasks[t].pc = "get_or_create"
    /\ lock_holder' = "None"
    /\ LET id == tasks[t].session_id
           next_pc == got_session_pc(tasks[t].op)
       IN  IF sessions[id] # 0
           THEN /\ tasks' = [tasks EXCEPT ![t].session = sessions[id],
                                          ![t].pc = next_pc,
                                          ![t].result =
                                              IF next_pc = "returned"
                                              THEN "session" ELSE @]
                /\ running' = still_running(t, next_pc)
           ELSE /\ tasks' = [tasks EXCEPT ![t].pc = "acquire_create"]
                /\ running' = t
    /\ UNCHANGED <<sessions, session_objects, allocated, lock_waiters, calls,
                   cleanup_due, outsideStore>>

\* create_session with the lock held: a new ConversationSession is stored
\* under session_id, whatever was stored there
StoreCreate(t) ==
    /\ CanRun(t)
    /\ tasks[t].pc = "create"
    /\ allocated' = allocated + 1
    /\ session_objects' =
           Append(session_objects, ConversationSession(tasks[t].session_id))
    /\ sessions' = [sessions EXCEPT ![tasks[t].session_id] = allocated + 1]
    /\ tasks' = [tasks EXCEPT ![t].session = allocated + 1,
                              ![t].pc = "maybe_cleanup"]
    /\ running' = t
    /\ UNCHANGED <<lock_holder, lock_waiters, calls, cleanup_due,
                   outsideStore>>

\* await self._maybe_cleanup() when no cleanup is due: create_session
\* returns the session and the lock is released
StoreCleanupNotDue(t) ==
    /\ CanRun(t)
    /\ tasks[t].pc = "maybe_cleanup"
    /\ ~cleanup_due
    /\ lock_holder' = "None"
    /\ LET next_pc == got_session_pc(tasks[t].op)
       IN  /\ tasks' = [tasks EXCEPT ![t].pc = next_pc,
                                     ![t].result = IF next_pc = "returned"
                                                   THEN "session" ELSE @]
           /\ running' = still_running(t, next_pc)
    /\ UNCHANGED <<sessions, session_objects, allocated, lock_waiters, calls,
                   cleanup_due, outsideStore>>

\* await self._maybe_cleanup() when a cleanup is due: cleanup_stale_sessions
\* is called, which starts with "async with self._lock"
StoreCleanupDue(t) ==
    /\ CanRun(t)
    /\ tasks[t].pc = "maybe_cleanup"
    /\ cleanup_due
    /\ tasks' = [tasks EXCEPT ![t].pc = "acquire_cleanup"]
    /\ running' = t
    /\ UNCHANGED <<sessions, session_objects, allocated, lock_holder,
                   lock_waiters, calls, cleanup_due, outsideStore>>

\* session.add_message({...}); return session
StoreAddMessage(t) ==
    /\ CanRun(t)
    /\ tasks[t].pc = "add_message"
    /\ session_objects' =
           [session_objects EXCEPT ![tasks[t].session].messages =
               add_message(@, StoredTurn(tasks[t].op, tasks[t].turn))]
    /\ tasks' = [tasks EXCEPT ![t].pc = "returned", ![t].result = "session"]
    /\ running' = "None"
    /\ UNCHANGED <<sessions, allocated, lock_holder, lock_waiters, calls,
                   cleanup_due, outsideStore>>

\* (faulty variant) delete_session leaves the store as it is
sessions_without_Kept(store, id) == store

\* del self.sessions[session_id]
sessions_without(store, id) == [store EXCEPT ![id] = 0]

\* delete_session with the lock held
StoreDelete(t) ==
    /\ CanRun(t)
    /\ tasks[t].pc = "delete"
    /\ LET id == tasks[t].session_id
       IN  IF sessions[id] # 0
           THEN /\ sessions' = sessions_without(sessions, id)
                /\ session_objects' =
                       [session_objects EXCEPT ![sessions[id]].removed = TRUE]
                /\ tasks' = [tasks EXCEPT ![t].pc = "returned",
                                          ![t].result = "True"]
           ELSE /\ tasks' = [tasks EXCEPT ![t].pc = "returned",
                                          ![t].result = "False"]
                /\ UNCHANGED <<sessions, session_objects>>
    /\ lock_holder' = "None"
    /\ running' = "None"
    /\ UNCHANGED <<allocated, lock_waiters, calls, cleanup_due, outsideStore>>

\* get_session with the lock held: return self.sessions.get(session_id)
StoreGet(t) ==
    /\ CanRun(t)
    /\ tasks[t].pc = "get"
    /\ tasks' = [tasks EXCEPT ![t].pc = "returned",
                              ![t].session = sessions[tasks[t].session_id],
                              ![t].result =
                                  IF sessions[tasks[t].session_id] # 0
                                  THEN "session" ELSE "None"]
    /\ lock_holder' = "None"
    /\ running' = "None"
    /\ UNCHANGED <<sessions, session_objects, allocated, lock_waiters, calls,
                   cleanup_due, outsideStore>>

\* More than cleanup_interval seconds have passed since the last cleanup.
StoreTimePasses ==
    /\ ~cleanup_due
    /\ cleanup_due' = TRUE
    /\ UNCHANGED <<sessions, session_objects, allocated, lock_holder,
                   lock_waiters, running, tasks, calls, outsideStore>>

StoreStep ==
    \/ \E t \in Tasks : StoreCall(t)
    \/ \E t \in Tasks : StoreAcquire(t)
    \/ \E t \in Tasks : StoreGetOrCreate(t)
    \/ \E t \in Tasks : StoreCreate(t)
    \/ \E t \in Tasks : StoreCleanupNotDue(t)
    \/ \E t \in Tasks : StoreCleanupDue(t)
    \/ \E t \in Tasks : StoreAddMessage(t)
    \/ \E t \in Tasks : StoreDelete(t)
    \/ \E t \in Tasks : StoreGet(t)
    \/ StoreTimePasses

SpecStore == InitStore /\ [][StoreStep]_vars

(***************************************************************************)
(* ConversationManager: one session per id.                                *)
(***************************************************************************)
\* the session objects made for id that delete_session did not remove
LiveObjects(id) ==
    {r \in 1..allocated : /\ session_objects[r].session_id = id
                          /\ ~session_objects[r].removed}

StoredTurns(r) ==
    {session_objects[r].messages[i] :
        i \in 1..Len(session_objects[r].messages)}

\* C17: whatever way the tasks' calls of get_or_create_session,
\* add_user_message and add_agent_message interleave, at most one session
\* object that was not deleted exists per id and it is the one the store
\* holds; the session a task works on is that object; and the turn a
\* returned add_user_message or add_agent_message appended is in it.
C17_OneSessionPerId ==
    /\ \A id \in SessionIds :
         /\ Cardinality(LiveObjects(id)) <= 1
         /\ LiveObjects(id) = IF sessions[id] # 0 THEN {sessions[id]} ELSE {}
    /\ \A t \in Tasks :
         tasks[t].session # 0 =>
             LET r == tasks[t].session
             IN  /\ session_objects[r].session_id = tasks[t].session_id
                 /\ ~session_objects[r].removed
                        => sessions[tasks[t].session_id] = r
                 /\ tasks[t].pc = "returned"
                    /\ tasks[t].op \in {"add_user_message", "add_agent_message"}
                        => StoredTurn(tasks[t].op, tasks[t].turn)
                               \in StoredTurns(r)

\* both tasks appended a turn to an id that was unknown before: one session
\* object, which holds both turns
C17_Witness ==
    /\ \A t \in Tasks : /\ tasks[t].pc = "returned"
                        /\ tasks[t].session_id = "s1"
                        /\ tasks[t].session = 1
    /\ tasks["t1"].op = "add_user_message"
    /\ tasks["t2"].op = "add_agent_message"
    /\ allocated = 1
    /\ sessions["s1"] = 1
    /\ Len(session_objects[1].messages) = 2

(***************************************************************************)
(* ConversationManager: delete_session.                                    *)
(***************************************************************************)
SessionCount == Cardinality({id \in SessionIds : sessions[id] # 0})

\* task t returns from the call it is in with the lock held at pc
Returns(t, at_pc) == tasks[t].pc = at_pc /\ tasks'[t].pc = "returned"

\* C18: delete_session of a stored id returns True, takes that id out of
\* the store, which then holds one session less, and touches no other
\* session and no message; delete_session of an id that is not stored
\* returns False and changes nothing; get_session of an id that is not
\* stored returns None; and an id comes back into the store only by a
\* create, which stores a new session object with no messages.
C18_DeleteIsFinal ==
    [][ /\ \A t \in Tasks :
             LET id == tasks[t].session_id
             IN  /\ Returns(t, "delete") /\ sessions[id] # 0 =>
                        /\ tasks'[t].result = "True"
                        /\ sessions'[id] = 0
                        /\ SessionCount' = SessionCount - 1
                        /\ \A other \in SessionIds \ {id} :
                             sessions'[other] = sessions[other]
                        /\ \A r \in 1..allocated :
                             session_objects'[r].messages =
                                 session_objects[r].messages
                 /\ Returns(t, "delete") /\ sessions[id] = 0 =>
                        /\ tasks'[t].result = "False"
                        /\ UNCHANGED <<sessions, session_objects>>
                 /\ Returns(t, "get") =>
                        /\ tasks'[t].session = sessions[id]
                        /\ (tasks'[t].result = "None") = (sessions[id] = 0)
        /\ \A id \in SessionIds :
             sessions[id] = 0 /\ sessions'[id] # 0 =>
                 /\ \E t \in Tasks : /\ tasks[t].pc = "create"
                                     /\ tasks[t].session_id = id
                 /\ sessions'[id] = allocated + 1
                 /\ session_objects'[sessions'[id]].messages = <<>>
      ]_vars

\* a session was created and deleted, and get_session then returned None
C18_Witness ==
    \E t \in Tasks :
        /\ tasks[t].op = "get_session"
        /\ tasks[t].pc = "returned"
        /\ tasks[t].result = "None"
        /\ sessions[tasks[t].session_id] = 0
        /\ \E r \in 1..allocated :
             /\ session_objects[r].session_id = tasks[t].session_id
             /\ session_objects[r].removed

(***************************************************************************)
(* The consensus score of a round.  Scores are fractions                   *)
(* <<numerator, denominator>> with a positive denominator.                 *)
(***************************************************************************)
\* the largest number of rounds, responses and keyword hits of a call
MaxGiven == 4

\* len(agreement_keywords) and len(conflict_keywords): a response counts
\* once for every keyword it contains
agreement_keywords == 12

conflict_keywords == 7

Equal(x, y) == x[1] * y[2] = y[1] * x[2]

AtMost(x, y) == x[1] * y[2] <= y[1] * x[2]

Sum(x, y) == <<x[1] * y[2] + y[1] * x[2], x[2] * y[2]>>

\* min(1.0, x)
capped(x) == IF AtMost(x, <<1, 1>>) THEN x ELSE <<1, 1>>

\* (faulty variant) one of the two signs is enough for the bonus
boost_applies_Either(n, a) == n >= 3 \/ a >= 2

\* if len(curr_round) >= 3 and agreement_count >= 2
boost_applies(n, a) == n >= 3 /\ a >= 2

\* MultiAgentSystem._detect_consensus, given the number of rounds in
\* all_round_responses, the number n of responses of the last round and
\* the keyword hits a and c counted in them
detect_consensus(rounds, n, a, c) ==
    IF rounds < 2 THEN <<0, 1>>
    ELSE IF a + c = 0 THEN <<1, 2>>
    ELSE IF boost_applies(n, a)
         THEN capped(Sum(<<a, a + c>>, <<1, 5>>))
         ELSE <<a, a + c>>

\* the calls: n responses hold at most 12 n agreement hits and 7 n
\* conflict hits, and no round to look at means no response
InitConsensus ==
    /\ GroupIdle
    /\ RouterIdle
    /\ ConferenceIdle
    /\ ThinkTankIdle
    /\ HandlerIdle
    /\ HistoryIdle
    /\ StoreIdle
    /\ MentionsIdle
    /\ SweepIdle
    /\ LeaderIdle
    /\ dc_pc = "call"
    /\ rounds_given \in 0..MaxGiven
    /\ curr_round \in 0..MaxGiven
    /\ agreement_count \in 0..MaxGiven
    /\ conflict_count \in 0..MaxGiven
    /\ rounds_given = 0 => curr_round = 0
    /\ agreement_count <= agreement_keywords * curr_round
    /\ conflict_count <= conflict_keywords * curr_round
    /\ consensus_result = <<0, 1>>

\* The call returns.
DetectConsensus ==
    /\ dc_pc = "call"
    /\ consensus_result' = detect_consensus(rounds_given, curr_round,
                                            agreement_count, conflict_count)
    /\ dc_pc' = "returned"
    /\ UNCHANGED <<rounds_given, curr_round, agreement_count, conflict_count,
                   outsideConsensus>>

SpecConsensus == InitConsensus /\ [][DetectConsensus]_vars

\* the score of the claim for the hits a, c and n responses of the call
ClaimedScore ==
    LET a == agreement_count
        c == conflict_count
        plain == <<a, a + c>>
        boosted == Sum(plain, <<1, 5>>)
    IN  IF a + c = 0 THEN <<1, 2>>
        ELSE IF curr_round >= 3 /\ a >= 2
             THEN (IF AtMost(boosted, <<1, 1>>) THEN boosted ELSE <<1, 1>>)
             ELSE plain

ClaimedExamples ==
    agreement_count = 3 /\ conflict_count = 1 =>
        IF curr_round < 3 THEN Equal(consensus_result, <<75, 100>>)
        ELSE Equal(consensus_result, <<95, 100>>)

InUnitInterval(x) == x[2] > 0 /\ AtMost(<<0, 1>>, x) /\ AtMost(x, <<1, 1>>)

ConnectionEnded == ws_pc \in {"closed", "disconnected", "failed"}

\* the ConnectionManager holds nothing of the handler's websocket
Forgotten(ws) ==
    /\ ws \notin Range(active_connections)
    /\ websocket_to_session[ws] = "None"
    /\ \A b \in BrowserIds : browser_sessions[b] # ws

\* C19, as stated: when the connection has ended, in any of the three
\* ways, the store holds no session of it and the ConnectionManager holds
\* its websocket neither in active_connections nor in its two maps.
C19_AsStated ==
    ConnectionEnded =>
        /\ \A id \in SessionIds : sessions[id] = 0
        /\ Forgotten(websocket)

\* the client closed a connection that had registered its browser session:
\* the handler is gone, the websocket is still active and registered
C19_Witness ==
    /\ ws_pc = "closed"
    /\ websocket \in Range(active_connections)
    /\ websocket_to_session[websocket] = "b1"
    /\ browser_sessions["b1"] = websocket

(***************************************************************************)
(* Group mode: who gets a turn.                                            *)
(***************************************************************************)
\* the ids a step puts into the queue
Enqueued == Range(agent_queue') \ Range(agent_queue)

\* tier 1 named exactly one agent and no reply of the pass added an agent
SingleAgentNoDelegation ==
    /\ routing_decision # <<>>
    /\ Len(routing_decision[1].agent_ids) = 1
    /\ agent_to_agent_round = 0

\* C21: in a Group-mode pass an id enters the queue only from the tier-1
\* decision or from the tier-2 decision about the reply of an agent that has
\* responded, and only the head of the queue is invoked; when tier 1 names
\* exactly one agent X and no reply adds an agent, the pass ends with exactly
\* one completed turn, by X, and an empty queue.
C21_OnlyNamedAgentsRespond ==
    /\ [][Enqueued # {} =>
            \/ /\ pc = "start"
               /\ agent_queue' = routing_decision'[1].agent_ids
            \/ /\ pc = "responding"
               /\ tier2' = "routed"
               /\ agent_id \in responded_agents
               /\ \E mention_routing \in TierTwoDecisions[agent_id] :
                      Enqueued \subseteq Range(mention_routing.agent_ids)]_vars
    /\ [][invocations' # invocations =>
            /\ agent_queue # <<>>
            /\ agent_id' = Head(agent_queue)
            /\ responded_agents' = responded_agents \cup {agent_id'}]_vars
    /\ [](Range(PassAgents) \subseteq responded_agents)
    /\ []((pc = "done" /\ SingleAgentNoDelegation) =>
            /\ PassAgents = routing_decision[1].agent_ids
            /\ agent_queue = <<>>)

\* tier 1 named siddarth alone, whose reply had no mention: the pass ended
\* with siddarth's turn and nothing queued
C21_Witness ==
    /\ pc = "done"
    /\ routing_decision # <<>>
    /\ routing_decision[1].agent_ids = <<"siddarth">>
    /\ tier2 = "no_mentions"
    /\ PassAgents = <<"siddarth">>
    /\ agent_queue = <<>>

(***************************************************************************)
(* Group mode: a greeting.                                                 *)
(***************************************************************************)
\* routing_decision.context == "greeting"
GreetingPass ==
    routing_decision # <<>> /\ routing_decision[1].context = "greeting"

\* C22 as stated: in a Group-mode pass whose routing decision has intent
\* greeting no agent other than the leader is invoked.
C22_AsStated == GreetingPass => Range(Invoked) \subseteq {leader}

\* a greeting whose classifier named no roster id: the whole roster was
\* invoked and every agent's turn was appended
C22_Witness ==
    /\ pc = "done"
    /\ GreetingPass
    /\ routing_decision[1].agent_ids = AGENTS_keys
    /\ PassAgents = AGENTS_keys
    /\ \E i \in 1..Len(PassTurns) :
           PassTurns[i].agent_id # leader /\ PassTurns[i].content = <<"text">>

(***************************************************************************)
(* ConnectionManager: one connection per browser session.                  *)
(***************************************************************************)
\* the step in which this websocket takes over a browser session that an
\* earlier, still listed websocket held
TakesOver(id) ==
    /\ must_close(id, websocket)
    /\ browser_sessions'[id] = websocket

\* C24 as stated: when this websocket registers a browser session that a
\* different active websocket holds, the earlier websocket is removed from
\* active_connections and from the websocket-to-session map, this websocket
\* is the one registered for the id, and its handler goes on receiving.
C24_AsStated ==
    [][\A id \in BrowserIds :
          TakesOver(id) =>
              /\ browser_sessions[id] \notin Range(active_connections')
              /\ websocket_to_session'[browser_sessions[id]] = "None"
              /\ websocket_to_session'[websocket] = id
              /\ ws_pc' = "receive"]_vars

\* this websocket holds browser session b1 while the earlier websocket of
\* b1 is still listed as active and still mapped to b1
C24_Witness ==
    /\ browser_sessions["b1"] = websocket
    /\ websocket_to_session[websocket] = "b1"
    /\ "ws2" \in Range(active_connections)
    /\ websocket_to_session["ws2"] = "b1"
    /\ ws_pc = "receive"

(***************************************************************************)
(* The WebSocket handler: a message that cannot be read.                   *)
(***************************************************************************)
\* the last message sent is the error of a message that could not be
\* received or parsed (the error of a failed chat follows "processing")
AfterBadMessage ==
    /\ ws_sent[Len(ws_sent)] = "error"
    /\ ws_sent[Len(ws_sent) - 1] # "processing"

\* the step that answers a message that could not be received or parsed
BadMessageStep ==
    /\ ws_pc = "receive"
    /\ ws_received' = ws_received + 1
    /\ ws_sent' = Append(ws_sent, "error")

\* C25: a message that cannot be received or parsed is answered with an
\* error message and leaves the connection as it was: the handler waits for
\* the next message (until the client itself closes), the connection stays
\* registered, and a ping that follows can be received and is answered with
\* pong.
C25_BadMessageKeepsConnection ==
    /\ [][BadMessageStep =>
            /\ ws_pc' = "receive"
            /\ UNCHANGED connVars]_vars
    /\ [](AfterBadMessage => ws_pc \in {"receive", "closed"})
    /\ []((AfterBadMessage /\ ws_pc # "closed" /\ ws_received < MaxMessages) =>
            ENABLED WSPing)

\* invalid JSON was answered with an error and the ping after it with pong
C25_Witness ==
    /\ ws_pc = "receive"
    /\ ws_sent = <<"connected", "error", "pong">>
    /\ websocket \in Range(active_connections)

(***************************************************************************)
(* Group mode: the round cap.                                              *)
(***************************************************************************)
\* C26 as stated: the number of times a reply added new agents to the queue
\* of a Group-mode pass (agent_to_agent_round counts exactly these) never
\* exceeds max_agent_to_agent_rounds.
C26_AsStated == agent_to_agent_round <= max_agent_to_agent_rounds

\* a pass ended after replies added agents three times; the agent added
\* last is still queued
C26_Witness ==
    /\ pc = "done"
    /\ agent_to_agent_round = max_agent_to_agent_rounds + 1
    /\ Len(PassAgents) = 3
    /\ agent_queue # <<>>
    /\ iteration_count < max_total_iterations

(***************************************************************************)
(* Group mode: which mentioned agents are enqueued, and the round counter. *)
(***************************************************************************)
\* the step that ends a turn whose reply the tier-2 classifier routed
RoutedStep == pc = "responding" /\ pc' = "loop" /\ tier2' = "routed"

\* the ids of a tier-2 decision that are neither in the responded set nor in
\* the queue
Fresh(mention_routing) ==
    SelectSeq(mention_routing.agent_ids,
              LAMBDA m : m \notin responded_agents /\ m \notin Range(agent_queue))

\* a list without the later occurrences of an id (an id appended for its
\* first occurrence is in the queue when the next one is looked at)
RECURSIVE FirstOccurrences(_)
FirstOccurrences(s) ==
    IF s = <<>> THEN <<>>
    ELSE LET before == FirstOccurrences(SubSeq(s, 1, Len(s) - 1))
         IN  IF s[Len(s)] \in Range(before) THEN before
             ELSE Append(before, s[Len(s)])

\* C27: the step that routes a reply appends to the queue, in order, exactly
\* the ids of the tier-2 decision that are neither in the responded set nor
\* in the queue; the round counter goes up by exactly 1 when at least one id
\* was appended and is unchanged otherwise, and no other step changes it.
C27_EnqueueRule ==
    /\ [][RoutedStep =>
            \E mention_routing \in TierTwoDecisions[agent_id] :
                LET newly_added == FirstOccurrences(Fresh(mention_routing))
                IN  /\ agent_queue' = agent_queue \o newly_added
                    /\ agent_to_agent_round' =
                           IF newly_added # <<>>
                           THEN agent_to_agent_round + 1
                           ELSE agent_to_agent_round]_vars
    /\ [][agent_to_agent_round' # agent_to_agent_round =>
            /\ RoutedStep
            /\ agent_to_agent_round' = agent_to_agent_round + 1
            /\ Len(agent_queue') > Len(agent_queue)]_vars
    /\ [][(RoutedStep /\ agent_queue' = agent_queue) =>
            agent_to_agent_round' = agent_to_agent_round]_vars

\* rahil's reply added mathew (round 1); mathew's reply was routed too and
\* added nobody: the round counter is still 1
C27_Witness ==
    /\ pc = "loop"
    /\ tier2 = "routed"
    /\ routing_decision # <<>>
    /\ routing_decision[1].agent_ids = <<"rahil">>
    /\ PassAgents = <<"rahil", "mathew">>
    /\ agent_queue = <<>>
    /\ agent_to_agent_round = 1

(***************************************************************************)
(* Group mode: one agent at a time, each seeing the turns before it.       *)
(***************************************************************************)
\* the prompt context of the agent that is responding:
\* agent.respond(user_query, local_history, mode="group", ...)
GroupContext == build_messages(local_history)

\* the context ends with the completed turns of this pass, in order
ContextHasPassTurns ==
    /\ Len(PassTurns) <= Len(GroupContext)
    /\ SubSeq(GroupContext, Len(GroupContext) - Len(PassTurns) + 1,
              Len(GroupContext)) = PassTurns

\* C28: in a Group-mode pass an agent is invoked only between turns, when
\* the turn of every agent invoked before it has been appended to the
\* running history and its tier-2 check is over; while the k-th agent
\* responds the history holds exactly the k-1 earlier turns of the pass, by
\* the agents that responded before it, and its prompt context contains
\* them all, in order.
C28_OneAtATime ==
    /\ [][invocations' # invocations =>
            /\ pc = "loop"
            /\ invocations' = invocations + 1
            /\ Len(PassTurns) = invocations
            /\ local_history' = local_history
            /\ invocations > 0 => tier2 \in {"no_mentions", "failed", "routed"}]_vars
    /\ [][local_history' # local_history =>
            /\ pc = "responding"
            /\ pc' = "loop"
            /\ local_history' =
                   Append(local_history, AgentTurn(agent_id, response_chunks))]_vars
    /\ [](pc = "responding" =>
            /\ Len(PassTurns) = invocations - 1
            /\ Range(PassAgents) = responded_agents \ {agent_id}
            /\ ContextHasPassTurns)

\* the fourth agent of a pass is responding: its context holds the three
\* turns before it
C28_Witness ==
    /\ pc = "responding"
    /\ Len(PassTurns) = 3
    /\ agent_id \notin Range(PassAgents)
    /\ ContextHasPassTurns
    /\ Len(GroupContext) = context_window

(***************************************************************************)
(* MentionParser: the pre-filter of the tier-2 classifier.  A text is a    *)
(* sequence of tokens: a first name of the roster as a word of its own, an *)
(* "@" directly followed by a first name, and                              *)
(*   "words"   one or more other words, none ending in hey, hi or yo,      *)
(*   "hey"     a word that ends in hey, hi or yo, followed by white space, *)
(*   "@words"  an "@" directly followed by a word that is no first name    *)
(*             and no agent id,                                            *)
(*   ","  ":"  the character, directly after the token before it,          *)
(*   "."       a period followed by white space.                           *)
(***************************************************************************)
\* longest text, in tokens
MaxTokens == 3

\* the agents whose names the texts hold
Named == {"mathew", "siddarth"}

Name(a) == <<"name", a>>

At(a) == <<"@", a>>

Plain(t) == <<t, "None">>

Tokens ==
    {Name(a) : a \in Named} \cup {At(a) : a \in Named}
    \cup {Plain(t) : t \in {"words", "hey", "@words", ",", ":", "."}}

Texts == SeqsUpTo(Tokens, MaxTokens)

\* at_mentions = re.findall(r'@(\w+)', text); the mention is the first name
\* or the id of the agent
at_mention(text, a) == \E i \in 1..Len(text) : text[i] = At(a)

\* rf'\b{first_name}\b[,:]'
name_then_punctuation(text, a) ==
    \E i \in 1..(Len(text) - 1) :
        /\ text[i] \in {Name(a), At(a)}
        /\ text[i + 1] \in {Plain(","), Plain(":")}

\* rf'(?:^|\.\s+){first_name}\b'
name_starts_sentence(text, a) ==
    \/ text # <<>> /\ text[1] = Name(a)
    \/ \E i \in 1..(Len(text) - 1) :
           text[i] = Plain(".") /\ text[i + 1] = Name(a)

\* rf'(?:hey|hi|yo)\s+{first_name}\b'
name_after_greeting(text, a) ==
    \E i \in 1..(Len(text) - 1) :
        text[i] = Plain("hey") /\ text[i + 1] = Name(a)

\* MentionParser.extract_mentions
extract_mentions(text) ==
    {a \in Named :
        \/ at_mention(text, a)
        \/ name_then_punctuation(text, a)
        \/ name_starts_sentence(text, a)
        \/ name_after_greeting(text, a)}

\* MentionParser.has_mentions: bool(MentionParser.extract_mentions(text))
has_mentions(text) == extract_mentions(text) # {}

InitMentions ==
    /\ GroupIdle
    /\ RouterIdle
    /\ ConferenceIdle
    /\ ThinkTankIdle
    /\ HandlerIdle
    /\ HistoryIdle
    /\ StoreIdle
    /\ ConsensusIdle
    /\ SweepIdle
    /\ LeaderIdle
    /\ mp_pc = "call"
    /\ mp_text \in Texts
    /\ mp_mentions = {}
    /\ mp_result = FALSE

\* has_mentions = MentionParser.has_mentions(full_response)
HasMentions ==
    /\ UNCHANGED outsideMentions
    /\ mp_pc = "call"
    /\ mp_mentions' = extract_mentions(mp_text)
    /\ mp_result' = has_mentions(mp_text)
    /\ mp_pc' = "returned"
    /\ UNCHANGED mp_text

SpecMentions == InitMentions /\ [][HasMentions]_vars

\* the forms of an active handoff the tier-2 classifier is told to accept:
\* "@Name, can you ...", "Name, please ...", "Can @Name review this?",
\* "Let me hand this over to Name", "I think Name should weigh in here"
ActiveHandoffs ==
    UNION {{<<At(a), Plain(","), Plain("words")>>,
            <<Name(a), Plain(","), Plain("words")>>,
            <<Plain("words"), At(a), Plain("words")>>,
            <<Plain("words"), Name(a)>>,
            <<Plain("words"), Name(a), Plain("words")>>} : a \in Named}

\* C29 as stated: has_mentions returns true for every reply that holds an
\* active delegation to a named teammate in one of the forms the tier-2
\* classifier is told to accept.
C29_AsStated ==
    (mp_pc = "returned" /\ mp_text \in ActiveHandoffs) => mp_result

\* has_mentions returned false for "Let me hand this over to Siddarth"
C29_Witness ==
    /\ mp_pc = "returned"
    /\ mp_text = <<Plain("words"), Name("siddarth")>>
    /\ mp_mentions = {}
    /\ ~mp_result

(***************************************************************************)
(* Think-Tank mode: the participating agents are fixed for the pass.       *)
(***************************************************************************)
\* the Think-Tank pass went to the rounds
NonGreetingPass ==
    tt_routing_decision # <<>> /\ tt_routing_decision[1].context # "greeting"

\* the step that starts a round
RoundStarts == discussion_round' = discussion_round + 1

\* the agents that responded in a finished round without being in the list
\* the classification fixed: they were added by a mention
AddedByMention(r) ==
    Range(all_round_responses[r]) \ Range(tt_routing_decision[1].agent_ids)

\* C30: a Think-Tank pass that is no greeting classifies the user message
\* exactly once (no later step changes the decision or the participating
\* list, and no Group pass with a classification of its own is started),
\* and every round starts from the agent list of that decision with nobody
\* marked as responded, so an agent that a mention added in one round is in
\* the starting queue of the next only if the decision named it.
C30_ParticipantsFixed ==
    /\ [][tt_routing_decision' # tt_routing_decision =>
            tt_pc = "route" /\ tt_routing_decision = <<>>]_vars
    /\ [][(tt_routing_decision # <<>> \/ tt_pc # "route") =>
            participating_agents' = participating_agents]_vars
    /\ [](NonGreetingPass =>
            /\ participating_agents = tt_routing_decision[1].agent_ids
            /\ routing_decision = <<>>
            /\ pc = "idle")
    /\ [][RoundStarts =>
            /\ NonGreetingPass
            /\ tt_agent_queue' = tt_routing_decision[1].agent_ids
            /\ responded_agents_this_round' = {}
            /\ \A r \in 1..Len(all_round_responses) :
                   AddedByMention(r) \cap Range(tt_agent_queue') = {}]_vars

\* round 2 has started from the list of the decision, <<"rahil">>, after a
\* round in which a mention added shreyas
C30_Witness ==
    /\ NonGreetingPass
    /\ tt_pc = "round_loop"
    /\ discussion_round = 2
    /\ round_iteration_count = 0
    /\ tt_routing_decision[1].agent_ids = <<"rahil">>
    /\ all_round_responses = <<<<"rahil", "shreyas">>>>
    /\ tt_agent_queue = <<"rahil">>


(***************************************************************************)
(* C31: in every round of a Think-Tank discussion every agent of the       *)
(* participating list responds exactly once and no agent responds twice,   *)
(* whatever list the classifier returned.                                  *)
(***************************************************************************)
\* a round has just been closed: round_complete was yielded for it
RoundClosed == tt_pc = "round_completed"

\* the agents of the participating list that did not respond in the round
Unheard == Range(participating_agents) \ Range(round_responses)

\* C31 as stated: when a round is closed, every participating agent has
\* responded in it and nobody has responded twice
C31_AsStated ==
    RoundClosed => Unheard = {} /\ NoRepeat(round_responses)

\* the part of C31 that holds: nobody responds twice in a round
C31_NoRepeatInRound == NoRepeat(round_responses)

\* a round is closed by the iteration limit with a participating agent
\* still queued
C31_Witness ==
    /\ RoundClosed
    /\ round_iteration_count = max_iterations_per_round
    /\ Unheard # {}
    /\ Unheard \subseteq Range(tt_agent_queue)


(***************************************************************************)
(* C32: the prompt context of the Think-Tank synthesis turn holds every    *)
(* agent turn of every round of the discussion.                            *)
(***************************************************************************)
\* the agent turns the rounds of this pass appended to the running history
DiscussionTurns ==
    SubSeq(tt_local_history, Len(tt_conversation_history) + 1,
           Len(tt_local_history))

\* the prompt context of the synthesis turn:
\* rahil.respond(summary_prompt, local_history, mode="think_tank")
SynthesisContext == build_messages(tt_local_history)

\* the context ends with all turns of the discussion, in order
ContextHasDiscussion ==
    /\ Len(DiscussionTurns) <= Len(SynthesisContext)
    /\ SubSeq(SynthesisContext,
              Len(SynthesisContext) - Len(DiscussionTurns) + 1,
              Len(SynthesisContext)) = DiscussionTurns

\* C32 as stated: while the leader writes the synthesis, its prompt context
\* contains the whole transcript of the discussion
C32_AsStated == tt_pc = "summarising" => ContextHasDiscussion

\* the synthesis of a discussion of two rounds of three turns: the first
\* turn of round 1 is not in the context
C32_Witness ==
    /\ tt_pc = "summarising"
    /\ Len(DiscussionTurns) = context_window + 1
    /\ DiscussionTurns[1].round = 1
    /\ DiscussionTurns[1] \notin Range(SynthesisContext)
    /\ Len(SynthesisContext) = context_window


(***************************************************************************)
(* C33: create_session returns and releases the lock, also when a cleanup  *)
(* is due.                                                                 *)
(***************************************************************************)
\* task t holds the lock and is suspended in an acquire of the same lock
WaitsForItself(t) == lock_holder = t /\ Suspended(t)

\* C33 as stated: create_session returns a session and releases the lock,
\* so the task that holds the lock in create_session is never suspended
\* waiting for that lock (only the holder releases it, and a suspended task
\* does not run)
C33_AsStated == \A t \in Tasks : ~WaitsForItself(t)

\* once a task waits for the lock it holds, it does so in every later state
\* and the lock is never free again
C33_StuckForever ==
    [][\A t \in Tasks : WaitsForItself(t) => WaitsForItself(t)']_vars

\* create_session found a cleanup due and waits for its own lock, and the
\* other task, which called the store afterwards, waits behind it
C33_Witness ==
    /\ WaitsForItself("t1")
    /\ tasks["t1"].pc = "acquire_cleanup"
    /\ lock_waiters = <<"t1", "t2">>
    /\ tasks["t2"].turn > tasks["t1"].turn


(***************************************************************************)
(* C35: what the Session Store holds after the handler finished a          *)
(* group-mode chat.                                                        *)
(***************************************************************************)
\* the handler has finished a group-mode chat: all_complete was the last
\* message it sent and it waits for the next message
GroupChatFinished ==
    /\ ws_pc = "receive"
    /\ ws_mode = "group"
    /\ ws_sent[Len(ws_sent)] = "all_complete"

\* the session objects of the store that hold a message of the user
WithUserMessage ==
    {r \in 1..allocated :
        \E i \in 1..Len(session_objects[r].messages) :
            session_objects[r].messages[i].role = "user"}

\* C35 as stated: after the handler finished a group-mode chat, the stored
\* history of a session holds the user message (followed by the turns of
\* the agents that responded)
C35_AsStated == GroupChatFinished => WithUserMessage # {}

\* a group-mode chat was acknowledged and ended with error and
\* all_complete, and the store holds no session at all
C35_Witness ==
    /\ GroupChatFinished
    /\ ws_sent = <<"connected", "processing", "error", "all_complete">>
    /\ allocated = 0
    /\ \A id \in SessionIds : sessions[id] = 0


(***************************************************************************)
(* C36: the agents a tier-2 delegation put into the queue of a Group-mode  *)
(* pass are invoked before the pass ends.                                  *)
(***************************************************************************)
\* the agents that entered the queue by a tier-2 delegation: the queue
\* starts as the tier-1 list, and an id leaves it only by a dequeue
Delegated ==
    IF routing_decision = <<>> THEN {}
    ELSE (Range(agent_queue) \cup responded_agents)
             \ Range(routing_decision[1].agent_ids)

\* C36 as stated: when the pass has ended, every delegated agent was invoked
C36_AsStated == pc = "done" => Delegated \subseteq responded_agents

\* C36, amended: when the pass has ended, every delegated agent was invoked
\* unless a cap ended the pass: the round counter went beyond
\* max_agent_to_agent_rounds or the 10 dequeues are used up; and while the
\* loop goes on, a roster agent at the head of the queue that has not
\* responded is the one invoked next.
C36_DelegatedInvokedUnlessCapped ==
    /\ [](pc = "done" =>
            \/ Delegated \subseteq responded_agents
            \/ agent_to_agent_round > max_agent_to_agent_rounds
            \/ iteration_count = max_total_iterations)
    /\ [][pc = "loop" /\ pc' = "responding" =>
            /\ agent_id' = Head(agent_queue)
            /\ agent_id' \notin responded_agents
            /\ responded_agents' = responded_agents \cup {agent_id'}]_vars

\* a pass ended with the queue empty after two delegations, and both
\* delegated agents responded
C36_Witness ==
    /\ pc = "done"
    /\ agent_queue = <<>>
    /\ agent_to_agent_round = max_agent_to_agent_rounds
    /\ Cardinality(Delegated) >= 2
    /\ Delegated \subseteq responded_agents


(***************************************************************************)
(* C39: the three collections of the ConnectionManager agree.              *)
(***************************************************************************)
\* the websockets that browser_sessions or websocket_to_session mention
Mentioned ==
    ({browser_sessions[b] : b \in BrowserIds} \ {"None"})
        \cup {w \in WebSockets : websocket_to_session[w] # "None"}

\* browser_sessions and websocket_to_session are inverse maps
InverseMaps ==
    /\ \A b \in BrowserIds :
         browser_sessions[b] # "None" =>
             websocket_to_session[browser_sessions[b]] = b
    /\ \A w \in WebSockets :
         websocket_to_session[w] # "None" =>
             browser_sessions[websocket_to_session[w]] = w

\* C39 as stated: the two maps are inverse to each other, every websocket
\* they mention is an active connection, and after disconnect(ws) the
\* websocket is in none of the three collections
C39_AsStated ==
    /\ InverseMaps
    /\ Mentioned \subseteq Range(active_connections)
    /\ ws_pc \in {"disconnected", "failed"} =>
           websocket \notin Range(active_connections) \cup Mentioned

\* the websocket registered b1 and then b2 and was disconnected:
\* browser_sessions still holds it under b1
C39_Witness ==
    /\ ws_pc \in {"disconnected", "failed"}
    /\ browser_sessions = [b \in BrowserIds |->
                              IF b = "b1" THEN websocket ELSE "None"]
    /\ websocket_to_session = NoWebsocketSessions
    /\ active_connections = <<>>


(***************************************************************************)
(* C38: the order of the control events of a Think-Tank discussion.        *)
(***************************************************************************)
\* what an item of the stream is: a control event by its type, "chunk" for
\* a chunk of an agent's reply in a round and for a citations event, and
\* "summary" for a chunk of the synthesis
Kind(item) ==
    CASE item.agent_id \in AGENTS -> "chunk"
      [] item.agent_id = "rahil_summary" -> "summary"
      [] item.chunk = "citations" -> "chunk"
      [] OTHER -> item.chunk

\* the number of the round the item at place i belongs to
RoundAt(i) == Cardinality({j \in EventsAt("round_start") : j <= i})

\* the kinds that may come right after the item at place i
MayFollow(i) ==
    LET kind == Kind(tt_out[i])
    IN  CASE kind = "think_tank_start" -> {"round_start", "summary_start"}
          [] kind = "round_start" -> {"chunk", "round_complete"}
          [] kind = "chunk" -> {"chunk", "round_complete"}
          [] kind = "round_complete" ->
                 IF RoundAt(i) >= 2 THEN {"consensus_update"}
                 ELSE {"round_start", "summary_start"}
          [] kind = "consensus_update" -> {"round_start", "summary_start"}
          [] kind = "summary_start" -> {"summary"}
          [] kind = "summary" -> {"summary", "think_tank_complete"}
          [] OTHER -> {}

MaxClock == 4

\* session_timeout and cleanup_interval of the manager, in units of time
session_timeout == 2

cleanup_interval == 1

\* how many sweeps are called, and how many messages a session gets
MaxSweeps == 2

MaxStored == 2

\* (faulty variant) a session is stale from the timeout on
is_stale_AtTimeout(session, now, timeout_seconds) ==
    (now - session.last_active) >= timeout_seconds

\* ConversationSession.is_stale:
\* return (time.time() - self.last_active) > timeout_seconds
is_stale(session, now, timeout_seconds) ==
    (now - session.last_active) > timeout_seconds

\* ConversationSession.add_message: the message gets its timestamp and
\* last_active is set
session_add_message(session, now) ==
    [last_active |-> now,
     messages |-> Append(session.messages, [timestamp |-> now])]

\* ConversationSession(session_id=...): last_active = time.time()
new_session(now) == [last_active |-> now, messages |-> <<>>]

\* stale_ids = [sid for sid, session in self.sessions.items()
\*              if session.is_stale(self.session_timeout)]
stale_ids(store, now) ==
    {sid \in SessionIds :
        store[sid] # NoSession /\ is_stale(store[sid], now, session_timeout)}

\* if (time.time() - self._last_cleanup) > self.cleanup_interval
cleanup_is_due == (sw_now - sw_last_cleanup) > cleanup_interval

InitSweep ==
    /\ GroupIdle
    /\ RouterIdle
    /\ ConferenceIdle
    /\ ThinkTankIdle
    /\ HandlerIdle
    /\ MoreIdle

\* time passes
SweepTick ==
    /\ UNCHANGED outsideSweep
    /\ sw_now < MaxClock
    /\ sw_now' = sw_now + 1
    /\ UNCHANGED <<sw_sessions, sw_last_cleanup, sw_returns, sw_pc>>

\* add_user_message or add_agent_message: get_or_create_session, then
\* session.add_message.  For an unknown id create_session stores a new
\* session and awaits _maybe_cleanup, which blocks when a cleanup is due.
SweepAddMessage(id) ==
    /\ UNCHANGED outsideSweep
    /\ sw_pc = "ready"
    /\ IF sw_sessions[id] # NoSession
       THEN /\ Len(sw_sessions[id].messages) < MaxStored
            /\ sw_sessions' =
                   [sw_sessions EXCEPT
                       ![id] = session_add_message(@, sw_now)]
            /\ UNCHANGED sw_pc
       ELSE IF cleanup_is_due
       THEN /\ sw_sessions' = [sw_sessions EXCEPT ![id] = new_session(sw_now)]
            /\ sw_pc' = "blocked"
       ELSE /\ sw_sessions' =
                   [sw_sessions EXCEPT
                       ![id] = session_add_message(new_session(sw_now),
                                                   sw_now)]
            /\ UNCHANGED sw_pc
    /\ UNCHANGED <<sw_now, sw_last_cleanup, sw_returns>>

\* cleanup_stale_sessions: del self.sessions[sid] for the stale ids,
\* self._last_cleanup = time.time(), return len(stale_ids)
SweepCleanup ==
    /\ UNCHANGED outsideSweep
    /\ sw_pc = "ready"
    /\ Len(sw_returns) < MaxSweeps
    /\ LET stale == stale_ids(sw_sessions, sw_now)
       IN  /\ sw_sessions' = [id \in SessionIds |->
                                 IF id \in stale THEN NoSession ELSE sw_sessions[id]]
           /\ sw_returns' = Append(sw_returns, Cardinality(stale))
    /\ sw_last_cleanup' = sw_now
    /\ UNCHANGED <<sw_now, sw_pc>>

SweepStep ==
    \/ SweepTick
    \/ \E id \in SessionIds : SweepAddMessage(id)
    \/ SweepCleanup

SpecSweep == InitSweep /\ [][SweepStep]_vars

\* the step is a call of cleanup_stale_sessions that returns
SweepReturns == Len(sw_returns') = Len(sw_returns) + 1

\* the time of the last append to a stored session
LastAppend(session) == session.messages[Len(session.messages)].timestamp

\* C34: a call of cleanup_stale_sessions removes exactly the sessions with
\* now - last_active > session_timeout, leaves every other session with its
\* last_active and its messages, and returns how many it removed; a session
\* whose last append is no longer ago than session_timeout is not removed.
C34_SweepRemovesExactlyStale ==
    [][SweepReturns =>
          /\ \A id \in SessionIds :
               sw_sessions'[id] =
                   IF /\ sw_sessions[id] # NoSession
                      /\ sw_now - sw_sessions[id].last_active > session_timeout
                   THEN NoSession
                   ELSE sw_sessions[id]
          /\ sw_returns'[Len(sw_returns')] =
                 Cardinality({id \in SessionIds :
                                 sw_sessions[id] # NoSession /\ sw_sessions'[id] = NoSession})
          /\ \A id \in SessionIds :
               /\ sw_sessions[id] # NoSession
               /\ sw_sessions[id].messages # <<>>
               /\ sw_now - LastAppend(sw_sessions[id]) <= session_timeout
               => sw_sessions'[id] = sw_sessions[id]
      ]_vars

\* a sweep has just returned 1: it removed s1, and it kept s2, whose last
\* append was exactly session_timeout ago
C34_Witness ==
    /\ sw_returns = <<1>>
    /\ sw_last_cleanup = sw_now
    /\ sw_sessions["s1"] = NoSession
    /\ sw_sessions["s2"] # NoSession
    /\ sw_sessions["s2"].messages # <<>>
    /\ sw_now - LastAppend(sw_sessions["s2"]) = session_timeout


(***************************************************************************)
(* The leader's completion client.  agent_system is one MultiAgentSystem   *)
(* for all connections, so its leader agent is shared by the passes of all *)
(* callers.  A pass is a generator: it runs from one yield to the next,    *)
(* and between two yields of one pass the caller may resume another pass   *)
(* or drop the generator, which closes it at the yield where it stands.    *)
(***************************************************************************)
InitLeader ==
    /\ GroupIdle
    /\ RouterIdle
    /\ ConferenceIdle
    /\ ThinkTankIdle
    /\ HandlerIdle
    /\ MoreIdle

\* a completion of the leader, made with the client the leader has when
\* respond is called
LeaderCall(p, kind, client) == [pass |-> p, kind |-> kind, client |-> client]

\* think_tank_mode is called:
\* reasoning_model = self._analyze_query_complexity(user_query)
PassStart(p) ==
    /\ UNCHANGED outsideLeader
    /\ pass_pc[p] = "idle"
    /\ \E model \in ReasoningModels :
         pass_model' = [pass_model EXCEPT ![p] = model]
    /\ pass_pc' = [pass_pc EXCEPT ![p] = "rounds"]
    /\ UNCHANGED <<leader_client, original_client, leader_calls>>

\* the leader responds in a round of the pass:
\* agent.respond(user_query, local_history, mode="think_tank")
PassLeaderTurn(p) ==
    /\ UNCHANGED outsideLeader
    /\ pass_pc[p] = "rounds"
    /\ leader_calls' = leader_calls \cup {LeaderCall(p, "turn", leader_client)}
    /\ pass_pc' = [pass_pc EXCEPT ![p] = "discussed"]
    /\ UNCHANGED <<leader_client, pass_model, original_client>>

\* if reasoning_model:
\*     rahil.openai_client = self._create_reasoning_client(reasoning_model)
synthesis_client(model, client) == IF model # "None" THEN model ELSE client

\* if reasoning_model: rahil.openai_client = original_client
restored_client(model, original, client) ==
    IF model # "None" THEN original ELSE client

\* The pass is resumed after summary_start: original_client is saved, the
\* reasoning client is installed if there is one, rahil.respond is called
\* and its first chunk is yielded.
PassSynthesisBegin(p) ==
    /\ UNCHANGED outsideLeader
    /\ pass_pc[p] \in {"rounds", "discussed"}
    /\ original_client' = [original_client EXCEPT ![p] = leader_client]
    /\ leader_client' = synthesis_client(pass_model[p], leader_client)
    /\ leader_calls' =
           leader_calls \cup {LeaderCall(p, "synthesis", leader_client')}
    /\ pass_pc' = [pass_pc EXCEPT ![p] = "summarising"]
    /\ UNCHANGED pass_model

\* The synthesis stream is exhausted: the client is restored and
\* think_tank_complete is yielded.
PassSynthesisEnd(p) ==
    /\ UNCHANGED outsideLeader
    /\ pass_pc[p] = "summarising"
    /\ leader_client' =
           restored_client(pass_model[p], original_client[p], leader_client)
    /\ pass_pc' = [pass_pc EXCEPT ![p] = "done"]
    /\ UNCHANGED <<pass_model, original_client, leader_calls>>

\* The caller drops the generator: GeneratorExit is raised at the yield,
\* which "except Exception" does not catch, and no finally clause runs.
PassAbandon(p) ==
    /\ UNCHANGED outsideLeader
    /\ pass_pc[p] \in {"rounds", "discussed", "summarising"}
    /\ pass_pc' = [pass_pc EXCEPT ![p] = "closed"]
    /\ UNCHANGED <<leader_client, pass_model, original_client, leader_calls>>

LeaderStep ==
    \E p \in Passes :
        \/ PassStart(p)
        \/ PassLeaderTurn(p)
        \/ PassSynthesisBegin(p)
        \/ PassSynthesisEnd(p)
        \/ PassAbandon(p)

SpecLeader == InitLeader /\ [][LeaderStep]_vars

\* a synthesis is in progress in some pass
Synthesising == \E p \in Passes : pass_pc[p] = "summarising"

\* C37 as stated: while no synthesis is in progress the leader has the
\* client it was constructed with, and every turn of the leader in a round
\* was generated with that client
C37_AsStated ==
    /\ ~Synthesising => leader_client = "original"
    /\ \A call \in leader_calls :
         call.kind = "turn" => call.client = "original"

\* the only pass there was installed o1-mini for its synthesis and was
\* dropped by its caller: the leader is left with the reasoning client
C37_Witness ==
    /\ pass_pc = [p \in Passes |-> IF p = "p1" THEN "closed" ELSE "idle"]
    /\ pass_model["p1"] = "o1-mini"
    /\ LeaderCall("p1", "synthesis", "o1-mini") \in leader_calls
    /\ leader_client = "o1-mini"
=============================================================================
